---- MODULE Spec2Model ----
(***************************************************************************)
(* Model of the alligator annotation service:                              *)
(*   - the worker of api/process/computation.py (main): claim of one page  *)
(*     of the row collection, the pipeline stages, the final status update *)
(*     and the exception handler;                                          *)
(*   - the ingress handlers of api/app.py that insert and delete pages;    *)
(*   - the Lookup stage of api/process/phases/lookup.py with the KG client *)
(*     of api/process/wrapper/lamAPI.py (semaphore, retries, error log).   *)
(* Spec is the store with its workers and ingress requests; SpecKG is one   *)
(* KG client under concurrent calls; SpecLookup and SpecLookupHints are    *)
(* the Lookup stage of one page over one KG client (without and with       *)
(* provided ids and page kwargs); SpecPage follows one page through the    *)
(* stages of main's try block; SpecLookupTags is the Lookup stage over the  *)
(* NE / LIT / untagged columns of a page; SpecFacade is the HTTP facade of  *)
(* api/app.py over the store; SpecRank is the candidate list of one cell    *)
(* through the scoring stages of main; SpecDelete is the delete handlers    *)
(* over processed tables of two datasets; SpecKGFair is the KG client with  *)
(* fair scheduling of its coroutines; SpecLookupRaise is the Lookup stage   *)
(* over rows whose provided ids make the client's lookup raise.             *)
(***************************************************************************)
EXTENDS Integers, Sequences, FiniteSets, TLC

\* ------------------------------------------------------------------ bounds
\* number of worker processes started (each runs main once)
NumWorkers == 2
\* size of the pool of row-document _ids (every insert takes a fresh one)
MaxPages == 1
\* numbers of pages one upload may split a table into
PageCounts == {1, 2}
\* rows in every page
PageRows == 1

Workers == 1..NumWorkers
PageIds == 1..MaxPages
Datasets == {"d1", "d2"}
TableNames == {"t1", "t2"}
\* a table is identified by (datasetName, tableName)
Tables == [datasetName : Datasets, tableName : TableNames]
None == "None"

VARIABLES
    \* ---- document store and job-signal store (shared by all processes)
    row_c,              \* row collection: _id -> page document
    nextId,             \* next fresh _id of the row collection
    table_c,            \* table collection: (datasetName, tableName) -> number of records
    dataset_c,          \* dataset collection: datasetName -> number of records
    candidate_scored_c, \* artifact collections: sets of documents
    cea_c,
    cta_c,
    cpa_c,
    log_c,              \* log collection
    STOP,               \* job_active key "STOP" present
    \* ---- worker processes (computation.py main)
    pc,                 \* position of each worker in main
    data,               \* running worker -> the document find_one_and_update returned
    claimsOf,           \* history: _id -> how many find-and-updates returned it
    claimsBy,           \* history: worker -> how many documents it was returned
    \* ---- one KG client (lamAPI.py LamAPI)
    max_concurrent_requests, \* capacity the semaphore was built with
    semaphore,          \* permits currently available
    call,               \* the calls of __submit_get / __submit_post
    lamapi_log,         \* log documents inserted by __log_error
    \* ---- Lookup stage of one page (lookup.py Lookup)
    rows_data,          \* data["rows"]: the cell texts of every row
    target_NE,          \* target["NE"]: the column indexes tagged NE
    target_LIT,         \* target["LIT"]: the column indexes tagged LIT
    lamapi_kwargs,      \* the lamapi_kwargs main passes to generate_candidates
    task,               \* the _build_row task of every row
    cache,              \* Lookup._cache: cell text -> candidates
    rows,               \* Lookup._rows, filled after the gather
    requests,           \* history: cell text -> lookups issued to the KG client
    \* ---- one page inside main's try block (computation.py 80-124)
    page_run,           \* position in the try block and what the stages have produced
    \* ---- HTTP facade (app.py)
    http_response,      \* the last response a handler returned, with its request
    \* ---- candidates of one NE cell through the scoring stages
    cell_candidates     \* position in lines 110-115 and the candidate list of the cell

storeVars == <<row_c, nextId, table_c, dataset_c, candidate_scored_c, cea_c, cta_c, cpa_c,
               log_c, STOP>>
workerVars == <<pc, data, claimsOf, claimsBy>>
kgVars == <<max_concurrent_requests, semaphore, call, lamapi_log>>
lookupVars == <<rows_data, target_NE, target_LIT, lamapi_kwargs, task, cache, rows,
               requests>>
stageVars == <<kgVars, lookupVars, page_run>>
vars == <<storeVars, workerVars, stageVars, http_response, cell_candidates>>

\* ------------------------------------------------------------ pipeline
\* the second Prediction called before the revision features are computed
Stages_RescoreFirst == <<"DataPrep", "Lookup", "FeaturesInitial", "PredictInitial",
                         "PredictFinal", "FeaturesRevision">>

\* the awaited/synchronous stages of main's try block that write no artifact
Stages == <<"DataPrep", "Lookup", "FeaturesInitial", "PredictInitial",
            "FeaturesRevision", "PredictFinal">>
\* the four artifact writes of Decision.store_data, in the order the
\* persistence section lists them
StoreSteps == <<"candidateScored", "cea", "cta", "cpa">>
\* main's try block (lines 79-136), statement after statement
Pipeline == Stages \o StoreSteps \o <<"update">>

Range(seq) == {seq[i] : i \in 1..Len(seq)}
IndexOf(seq, x) == CHOOSE i \in 1..Len(seq) : seq[i] = x
After(step) == IF step = "update" THEN "done"
               ELSE Pipeline[IndexOf(Pipeline, step) + 1]

Exists(id) == id \in DOMAIN row_c
\* the key (datasetName, tableName, page) every artifact document carries
Key(t, n) == [table |-> t, page |-> n]
\* documents of a collection that a query on (datasetName, tableName) selects
OfTable(coll, t) == {d \in coll : d.key.table = t}

\* ------------------------------------------------------------ initial state
StoreInit ==
    /\ row_c = <<>>
    /\ nextId = 1
    /\ table_c = [t \in Tables |-> 0]
    /\ dataset_c = [d \in Datasets |-> 0]
    /\ candidate_scored_c = {}
    /\ cea_c = {}
    /\ cta_c = {}
    /\ cpa_c = {}
    /\ log_c = {}
    /\ STOP = FALSE

WorkerInit ==
    /\ pc = [w \in Workers |-> "start"]
    /\ data = <<>>
    /\ claimsOf = [id \in PageIds |-> 0]
    /\ claimsBy = [w \in Workers |-> 0]

\* no KG client and no Lookup stage
KGIdle ==
    /\ max_concurrent_requests = 0
    /\ semaphore = 0
    /\ call = <<>>
    /\ lamapi_log = {}

LookupIdle ==
    /\ rows_data = <<>>
    /\ target_NE = {}
    /\ target_LIT = {}
    /\ lamapi_kwargs = <<>>
    /\ task = <<>>
    /\ cache = <<>>
    /\ rows = <<>>
    /\ requests = <<>>

\* revision._cta / revision._cpa_pair before compute_features has built them
NoProfile == [built |-> FALSE, score |-> None, rows |-> {}, rescored |-> {}]

\* no page is followed through the stages
PageIdle ==
    page_run = [pos |-> "idle", rho |-> {}, rho2 |-> {}, profile |-> NoProfile,
                decided |-> NoProfile]

\* what a handler returns, with the request it answers: the endpoint, the
\* token and the tables of the request, the exception the handler caught, the
\* status code and, for a table query, the table it returns
NoBody == [header |-> <<>>, nrows |-> 0, rows |-> <<>>]
NoResponse == [endpoint |-> None, token |-> None, tables |-> <<>>, raised |-> None,
               code |-> 0, body |-> NoBody]

\* no request has been answered
FacadeIdle == http_response = NoResponse

\* no cell is followed through the scoring stages
RankIdle == cell_candidates = [pos |-> "idle", candidates |-> <<>>]

Init ==
    /\ StoreInit /\ WorkerInit /\ KGIdle /\ LookupIdle /\ PageIdle
    /\ FacadeIdle /\ RankIdle

\* ------------------------------------------------------------ ingress (app.py)
\* the header of a submitted table and the data of its row k (one cell whose
\* text is proper to the table and the row); a text is written <<name, k>>
Header(t) == << <<t.tableName, 0>> >>
RowOf(t, k) == [idRow |-> k, data |-> << <<t.tableName, k>> >>]
\* the rows of a submitted table that is split into n pages
TableRows(t, n) == [k \in 1..(n * PageRows) |-> RowOf(t, k)]

\* the page document TableModel.get_data hands to insert_many: page n of the
\* table holds its rows (n-1)*PageRows+1 .. n*PageRows in order, the column
\* tags and the target as submitted, and status TODO
NewPage(t, n) ==
    [key |-> Key(t, n), status |-> "TODO", time |-> None, memory_peak |-> None,
     header |-> Header(t),
     rows |-> [k \in 1..PageRows |-> RowOf(t, (n - 1) * PageRows + k)],
     column |-> <<"NE">>,
     target |-> [NE |-> {0}, LIT |-> {}, SUBJ |-> None]]

\* an index that does not reject a second document with the same key
DuplicateKey_NotUnique(coll, key) == FALSE

\* create_index(..., unique=True): inserting a document whose key is already in
\* the collection raises DuplicateKeyError
DuplicateKey(coll, key) == coll[key] > 0

\* TableModel.store_tables: the table records of the request are inserted in
\* order; the insert stops at the first one the unique index rejects
RECURSIVE store_tables(_, _)
store_tables(coll, tables) ==
    IF tables = <<>> THEN [coll |-> coll, raised |-> FALSE]
    ELSE IF DuplicateKey(coll, Head(tables)) THEN [coll |-> coll, raised |-> TRUE]
    ELSE store_tables([coll EXCEPT ![Head(tables)] = @ + 1], Tail(tables))

\* DatasetModel.store_datasets: the dataset of every table of the request has
\* a record afterwards; an existing record is updated, not inserted again
store_datasets(coll, tables) ==
    [d \in DOMAIN coll |->
        IF coll[d] = 0 /\ \E i \in 1..Len(tables) : tables[i].datasetName = d
        THEN 1 ELSE coll[d]]

\* TableModel.get_data: the pages of the tables of the request, table after
\* table and page after page; pages[t] is the number of pages of table t
RECURSIVE get_data(_, _)
get_data(tables, pages) ==
    IF tables = <<>> THEN <<>>
    ELSE [k \in 1..pages[Head(tables)] |-> NewPage(Head(tables), k)]
            \o get_data(Tail(tables), pages)

\* insert_many: every document gets a fresh _id, in the order of the list
insert_many(coll, first, docs) ==
    [id \in DOMAIN coll \cup (first..(first + Len(docs) - 1)) |->
        IF id >= first THEN docs[id - first + 1] ELSE coll[id]]

\* CreateWithArray.post / DatasetTable.post answered after every statement of
\* the try block has run: the table record is stored under the unique index on
\* (datasetName, tableName), the dataset record is there, the pages are
\* inserted with status TODO and the STOP key is deleted.
Upload(t, n) ==
    /\ ~DuplicateKey(table_c, t)
    /\ nextId + n - 1 <= MaxPages
    /\ table_c' = store_tables(table_c, <<t>>).coll
    /\ dataset_c' = store_datasets(dataset_c, <<t>>)
    /\ row_c' = insert_many(row_c, nextId, get_data(<<t>>, [x \in Tables |-> n]))
    /\ nextId' = nextId + n
    /\ STOP' = FALSE
    /\ UNCHANGED <<candidate_scored_c, cea_c, cta_c, cpa_c, log_c>>
    /\ UNCHANGED <<workerVars, stageVars, http_response, cell_candidates>>

\* a delete of the rows and of the table record only
delete_table_RowsOnly(t) ==
    /\ row_c' = [id \in {i \in DOMAIN row_c : row_c[i].key.table # t} |->
                    row_c[id]]
    /\ table_c' = [table_c EXCEPT ![t] = IF @ > 0 THEN @ - 1 ELSE 0]
    /\ UNCHANGED <<cea_c, cta_c, cpa_c, candidate_scored_c>>

\* _delete_table: delete_many on the row and artifact collections, delete_one
\* on the table collection
delete_table(t) ==
    /\ row_c' = [id \in {i \in DOMAIN row_c : row_c[i].key.table # t} |->
                    row_c[id]]
    /\ table_c' = [table_c EXCEPT ![t] = IF @ > 0 THEN @ - 1 ELSE 0]
    /\ cea_c' = cea_c \ OfTable(cea_c, t)
    /\ cta_c' = cta_c \ OfTable(cta_c, t)
    /\ cpa_c' = cpa_c \ OfTable(cpa_c, t)
    /\ candidate_scored_c' = candidate_scored_c \ OfTable(candidate_scored_c, t)

\* TableID.delete -> _delete_table: every document of the table goes
DeleteTable(t) ==
    /\ table_c[t] > 0
    /\ delete_table(t)
    /\ UNCHANGED <<nextId, dataset_c, log_c, STOP>>
    /\ UNCHANGED <<workerVars, stageVars, http_response, cell_candidates>>

\* ------------------------------------------------------------ worker (computation.py)
\* The worker processes are started one after the other: worker w runs line 24
\* only once worker w-1 has.
\* the memory of a process that has ended is gone
Drop(f, w) == [v \in DOMAIN f \ {w} |-> f[v]]

Started(w) == IF w = 1 THEN TRUE ELSE pc[w - 1] # "start"

\* a startup that fails only after line 55 has run
StartupFail_AfterClaim(w) ==
    /\ pc[w] = "start"
    /\ Started(w)
    /\ \E id \in DOMAIN row_c :
          /\ row_c[id].status = "TODO"
          /\ row_c' = [row_c EXCEPT ![id].status = "DOING"]
    /\ pc' = [pc EXCEPT ![w] = "aborted"]
    /\ UNCHANGED <<data, claimsOf, claimsBy, nextId, table_c, dataset_c,
                   candidate_scored_c, cea_c, cta_c, cpa_c, log_c, STOP>>
    /\ UNCHANGED <<stageVars, http_response, cell_candidates>>

\* lines 24-53 and the import of wrapper.Database (Database.py 5-8): a missing
\* environment variable or an unloadable model file makes main raise before
\* line 55
StartupFail(w) ==
    /\ pc[w] = "start"
    /\ Started(w)
    /\ pc' = [pc EXCEPT ![w] = "aborted"]
    /\ UNCHANGED <<data, claimsOf, claimsBy, storeVars, stageVars, http_response, cell_candidates>>

\* the filter {"status": "TODO"} also matching pages in DOING
Matches_DOING(doc) == doc.status \in {"TODO", "DOING"}

\* line 55: the filter of find_one_and_update
Matches(doc) == doc.status = "TODO"

\* lines 24-55: startup, then one atomic find-and-update; the matching document is returned as
\* it was found and its status is set to DOING
FindOneAndUpdate(w) ==
    /\ pc[w] = "start"
    /\ Started(w)
    /\ \E id \in PageIds :
        /\ Exists(id)
        /\ Matches(row_c[id])
        /\ row_c' = [row_c EXCEPT ![id].status = "DOING"]
        /\ data' = [v \in DOMAIN data \cup {w} |->
                      IF v = w THEN [_id |-> id, key |-> row_c[id].key]
                      ELSE data[v]]
        /\ claimsOf' = [claimsOf EXCEPT ![id] = @ + 1]
    /\ claimsBy' = [claimsBy EXCEPT ![w] = @ + 1]
    /\ pc' = [pc EXCEPT ![w] = "claimed"]
    /\ UNCHANGED <<nextId, table_c, dataset_c, candidate_scored_c, cea_c, cta_c, cpa_c,
                   log_c, STOP, stageVars, http_response, cell_candidates>>

\* line 55 returning None
FindNothing(w) ==
    /\ pc[w] = "start"
    /\ Started(w)
    /\ ~ \E id \in PageIds : Exists(id) /\ Matches(row_c[id])
    /\ pc' = [pc EXCEPT ![w] = "nodata"]
    /\ UNCHANGED <<data, claimsOf, claimsBy, storeVars, stageVars, http_response, cell_candidates>>

\* lines 57-60: STOP is set and the process exits
SetStop(w) ==
    /\ pc[w] = "nodata"
    /\ STOP' = TRUE
    /\ pc' = [pc EXCEPT ![w] = "exited"]
    /\ UNCHANGED <<row_c, nextId, table_c, dataset_c, candidate_scored_c, cea_c, cta_c,
                   cpa_c, log_c, data, claimsOf, claimsBy, stageVars, http_response, cell_candidates>>

\* lines 62-77: the fields are read off the document, LamAPI and
\* DataPreparation are constructed; all of it before the try of line 79
Construct(w) ==
    /\ pc[w] = "claimed"
    /\ pc' = [pc EXCEPT ![w] = Pipeline[1]]
    /\ UNCHANGED <<data, claimsOf, claimsBy, storeVars, stageVars, http_response, cell_candidates>>

\* a stage that stores the candidates it has at its end
RunStage_StoresCandidates(w) ==
    /\ pc[w] \in Range(Stages)
    /\ pc' = [pc EXCEPT ![w] = After(pc[w])]
    /\ candidate_scored_c' = candidate_scored_c \cup
            {[key |-> data[w].key, by |-> data[w]._id, row |-> r] : r \in 1..PageRows}
    /\ UNCHANGED <<data, claimsOf, claimsBy, row_c, nextId, table_c, dataset_c,
                   cea_c, cta_c, cpa_c, log_c, STOP>>
    /\ UNCHANGED <<stageVars, http_response, cell_candidates>>

\* lines 80-115: the stage runs to completion and the next statement is reached;
\* no stage is given a handle on the artifact collections (`collections` goes
\* to Decision only)
RunStage(w) ==
    /\ pc[w] \in Range(Stages)
    /\ pc' = [pc EXCEPT ![w] = After(pc[w])]
    /\ UNCHANGED <<data, claimsOf, claimsBy, storeVars, stageVars, http_response, cell_candidates>>

\* an exception of lines 62-77 is outside the try of line 79: it ends the
\* process with nothing written
ConstructRaise(w) ==
    /\ pc[w] = "claimed"
    /\ pc' = [pc EXCEPT ![w] = "crashed"]
    /\ data' = Drop(data, w)
    /\ UNCHANGED <<claimsOf, claimsBy, storeVars, stageVars, http_response, cell_candidates>>

\* line 124, Decision.store_data: one of the four artifact writes, keyed by
\* the metadata of lines 92-97; candidateScored and cea hold one document per
\* row of the page, cta and cpa one document per page
StoreData(w) ==
    /\ pc[w] \in Range(StoreSteps)
    /\ LET doc == [key |-> data[w].key, by |-> data[w]._id]
           perRow == {[key |-> data[w].key, by |-> data[w]._id, row |-> r] :
                         r \in 1..PageRows}
       IN
        /\ candidate_scored_c' = IF pc[w] = "candidateScored"
                                  THEN candidate_scored_c \cup perRow
                                  ELSE candidate_scored_c
        /\ cea_c' = IF pc[w] = "cea" THEN cea_c \cup perRow ELSE cea_c
        /\ cta_c' = IF pc[w] = "cta" THEN cta_c \cup {doc} ELSE cta_c
        /\ cpa_c' = IF pc[w] = "cpa" THEN cpa_c \cup {doc} ELSE cpa_c
    /\ pc' = [pc EXCEPT ![w] = After(pc[w])]
    /\ UNCHANGED <<row_c, nextId, table_c, dataset_c, log_c, STOP, data, claimsOf,
                   claimsBy, stageVars, http_response, cell_candidates>>

\* the update written with obj_row_update as line 76 builds it
obj_row_update_AsBuilt(doc) == [doc EXCEPT !.status = "DONE", !.time = None]

\* the page document after {"$set": obj_row_update}: status DONE (line 76),
\* the column tags with the subject column tagged SUBJ and the computed target
\* (lines 80-90), the execution time and the memory peak (lines 125-135)
obj_row_update(doc) ==
    [doc EXCEPT !.status = "DONE",
                !.column = [@ EXCEPT ![1] = "SUBJ"],
                !.target = [@ EXCEPT !.SUBJ = 0],
                !.time = "execution_time",
                !.memory_peak = "mem_peak"]

\* line 136: update_one({"_id": _id}, {"$set": obj_row_update}); a document
\* that is gone is not matched
UpdateOne(w) ==
    /\ pc[w] = "update"
    /\ row_c' = IF Exists(data[w]._id)
                 THEN [row_c EXCEPT ![data[w]._id] = obj_row_update(@)]
                 ELSE row_c
    /\ pc' = [pc EXCEPT ![w] = After(pc[w])]
    /\ data' = Drop(data, w)
    /\ UNCHANGED <<nextId, table_c, dataset_c, candidate_scored_c, cea_c, cta_c, cpa_c,
                   log_c, STOP, claimsOf, claimsBy, stageVars, http_response, cell_candidates>>

\* the handler also writing the final status, as a finally clause would
HandleException_MarksDone(w) ==
    /\ log_c' = log_c \cup {[datasetName |-> data[w].key.table.datasetName,
                              tableName |-> data[w].key.table.tableName,
                              by |-> data[w]._id]}
    /\ pc' = [pc EXCEPT ![w] = "failed"]
    /\ data' = Drop(data, w)
    /\ row_c' = IF Exists(data[w]._id)
                 THEN [row_c EXCEPT ![data[w]._id].status = "DONE"]
                 ELSE row_c
    /\ UNCHANGED <<nextId, table_c, dataset_c, candidate_scored_c, cea_c, cta_c, cpa_c,
                   STOP>>

\* the handler putting the page back in the queue
HandleException_Requeues(w) ==
    /\ log_c' = log_c \cup {[datasetName |-> data[w].key.table.datasetName,
                              tableName |-> data[w].key.table.tableName,
                              by |-> data[w]._id]}
    /\ pc' = [pc EXCEPT ![w] = "failed"]
    /\ data' = Drop(data, w)
    /\ row_c' = IF Exists(data[w]._id)
                 THEN [row_c EXCEPT ![data[w]._id].status = "TODO"]
                 ELSE row_c
    /\ UNCHANGED <<nextId, table_c, dataset_c, candidate_scored_c, cea_c, cta_c, cpa_c,
                   STOP>>

\* lines 138-146: the handler inserts one log document and main returns
HandleException(w) ==
    /\ log_c' = log_c \cup {[datasetName |-> data[w].key.table.datasetName,
                              tableName |-> data[w].key.table.tableName,
                              by |-> data[w]._id]}
    /\ pc' = [pc EXCEPT ![w] = "failed"]
    /\ data' = Drop(data, w)
    /\ UNCHANGED <<row_c, nextId, table_c, dataset_c, candidate_scored_c, cea_c, cta_c,
                   cpa_c, STOP>>

\* a statement of the try block raises: a stage of lines 80-115, an artifact
\* write of line 124 or the update of line 136
Raise(w) ==
    /\ pc[w] \in Range(Pipeline)
    /\ HandleException(w)
    /\ UNCHANGED <<claimsOf, claimsBy, stageVars, http_response, cell_candidates>>

Worker(w) ==
    \/ StartupFail(w)
    \/ FindOneAndUpdate(w)
    \/ FindNothing(w)
    \/ SetStop(w)
    \/ Construct(w)
    \/ ConstructRaise(w)
    \/ RunStage(w)
    \/ StoreData(w)
    \/ UpdateOne(w)
    \/ Raise(w)

Next ==
    \/ \E t \in Tables, n \in PageCounts : Upload(t, n)
    \/ \E t \in Tables : DeleteTable(t)
    \/ \E w \in Workers : Worker(w)

Spec == Init /\ [][Next]_vars

\* ============================================================ claims on Spec
Statuses == {"TODO", "DOING", "DONE", "ERROR"}
Transitions == {<<"TODO", "DOING">>, <<"DOING", "DONE">>, <<"DOING", "ERROR">>}
\* positions of a worker that has ended
Ended == {"aborted", "exited", "crashed", "failed", "done"}
ArtifactsOf(k) == [candidateScored |-> {d \in candidate_scored_c : d.key = k},
                   cea |-> {d \in cea_c : d.key = k},
                   cta |-> {d \in cta_c : d.key = k},
                   cpa |-> {d \in cpa_c : d.key = k}]
HasAllArtifacts(k) == \A s \in Range(StoreSteps) : ArtifactsOf(k)[s] # {}

\* C1: a page is returned by at most one find-and-update, no two running
\* workers hold the same page, and a worker is returned at most one page per run
C1_AtMostOneOwner ==
    /\ \A id \in PageIds : claimsOf[id] <= 1
    /\ \A w \in Workers : claimsBy[w] <= 1
    /\ \A v, w \in DOMAIN data : v # w => data[v]._id # data[w]._id

\* C1 witness: one worker still holds the page it was returned while another
\* worker's find-and-update has run against the same collection and got nothing
C1_Witness ==
    \E v, w \in Workers :
        /\ v \in DOMAIN data
        /\ claimsOf[data[v]._id] = 1
        /\ pc[w] \in {"nodata", "exited"}

\* C2 (as claimed): when a statement of a pipeline stage raises while a worker
\* processes its page, the stored status of the page becomes ERROR
C2_StageFailureSetsError ==
    [][\A w \in Workers :
          (/\ pc[w] \in Range(Stages) \cup Range(StoreSteps)
           /\ pc'[w] = "failed"
           /\ data[w]._id \in DOMAIN row_c')
          => row_c'[data[w]._id].status = "ERROR"]_vars

\* C3 (as claimed): when the run of a worker that holds a page ends without
\* crashing, the page is DONE or ERROR (nothing writes its status afterwards)
C3_EndedRunLeavesDoneOrError ==
    [][\A w \in Workers :
          (/\ w \in DOMAIN data
           /\ pc'[w] \in {"failed", "done"}
           /\ data[w]._id \in DOMAIN row_c')
          => row_c'[data[w]._id].status \in {"DONE", "ERROR"}]_vars

C9_EveryExceptionLogged ==
    [][\A w \in Workers :
          (w \in DOMAIN data /\ pc'[w] \in {"failed", "crashed"})
          => /\ pc'[w] # "crashed"
             /\ \E e \in log_c' :
                   /\ e.datasetName = data[w].key.table.datasetName
                   /\ e.tableName = data[w].key.table.tableName]_vars

\* TableID._get_table for one page: the status it returns is computed from the
\* number of cea documents of the page against the number of its rows; the
\* stored status is not used
get_table_status(k) ==
    IF Cardinality(ArtifactsOf(k).cea) = PageRows THEN "DONE" ELSE "DOING"

\* C11 (as claimed): a step that enqueues pages leaves STOP cleared; a worker
\* exits without a page only when its find-and-update returned nothing and
\* STOP is set at that moment; no step of a worker creates the STOP key
C11_StopKeyProtocol ==
    [][/\ (DOMAIN row_c' \ DOMAIN row_c # {}) => ~STOP'
       /\ \A w \in Workers :
             (pc[w] # "exited" /\ pc'[w] = "exited")
             => (pc[w] = "nodata" /\ STOP)
       /\ (~STOP /\ STOP') => \A w \in Workers : pc'[w] = pc[w]]_vars

\* C12 (as claimed): whenever the table query endpoint returns status DONE for
\* a stored page, the candidateScored, cea, cta and cpa documents of that page
\* all exist
C12_ReportedDoneHasAllArtifacts ==
    \A id \in DOMAIN row_c :
        get_table_status(row_c[id].key) = "DONE"
        => HasAllArtifacts(row_c[id].key)

\* C10: a stored page's status is one of TODO, DOING, DONE, ERROR and a step
\* changes it only along TODO->DOING, DOING->DONE, DOING->ERROR
C10_StatusTransitions ==
    [][\A id \in PageIds :
          /\ id \in DOMAIN row_c' => row_c'[id].status \in Statuses
          /\ (id \in DOMAIN row_c /\ id \in DOMAIN row_c')
             => \/ row_c'[id].status = row_c[id].status
                \/ <<row_c[id].status, row_c'[id].status>> \in Transitions]_vars

\* C10 witness: a page has gone TODO -> DOING -> DONE while another worker ran
C10_Witness ==
    \E id \in DOMAIN row_c, v, w \in Workers :
        /\ row_c[id].status = "DONE"
        /\ claimsOf[id] = 1
        /\ pc[v] = "done"
        /\ v # w
        /\ pc[w] # "start"

\* the run on the page with this _id has a document in an artifact collection
Wrote(id) ==
    \/ \E d \in candidate_scored_c : d.by = id
    \/ \E d \in cea_c : d.by = id
    \/ \E d \in cta_c : d.by = id
    \/ \E d \in cpa_c : d.by = id

\* the worker holds the page with this _id and is inside Decision.store_data
Storing(id) ==
    \E w \in DOMAIN data : data[w]._id = id /\ pc[w] \in Range(StoreSteps)

C22_StartupFailureWritesNothing ==
    [][\A w \in Workers :
          /\ (pc[w] # "aborted" /\ pc'[w] = "aborted")
             => /\ pc[w] = "start"
                /\ claimsBy'[w] = 0
                /\ UNCHANGED storeVars
          /\ pc[w] = "aborted" => (pc'[w] = "aborted" /\ claimsBy'[w] = 0)]_vars

\* C22 witness: a worker has aborted at startup while a page was waiting, and
\* the page is still TODO
C22_Witness ==
    \E w \in Workers, id \in DOMAIN row_c :
        /\ pc[w] = "aborted"
        /\ row_c[id].status = "TODO"
        /\ claimsOf[id] = 0

\* C23 (as claimed): a step of a worker leaves the header, the rows, the column
\* tags and the target of every stored page as they were, and removes or
\* changes no document of the artifact collections
C23_WorkerWritesStatusOnly ==
    [][pc' # pc =>
          /\ \A id \in DOMAIN row_c \cap DOMAIN row_c' :
                /\ row_c'[id].header = row_c[id].header
                /\ row_c'[id].rows = row_c[id].rows
                /\ row_c'[id].column = row_c[id].column
                /\ row_c'[id].target = row_c[id].target
          /\ candidate_scored_c \subseteq candidate_scored_c'
          /\ cea_c \subseteq cea_c'
          /\ cta_c \subseteq cta_c'
          /\ cpa_c \subseteq cpa_c']_vars

\* C29: a stored page with status DONE has an execution time and a memory
\* peak, and the step that makes a page DONE is the one that writes both
C29_DoneHasTimeAndMemory ==
    [][\A id \in DOMAIN row_c' :
          row_c'[id].status = "DONE" =>
             /\ row_c'[id].time # None
             /\ row_c'[id].memory_peak # None
             /\ (id \in DOMAIN row_c /\ row_c[id].status # "DONE")
                => (row_c[id].time = None /\ row_c[id].memory_peak = None)]_vars

\* C29 witness: a page is stored as DONE with its execution time and memory
\* peak after the update of its worker
C29_Witness ==
    \E id \in DOMAIN row_c :
        /\ row_c[id].status = "DONE"
        /\ row_c[id].time = "execution_time"
        /\ row_c[id].memory_peak = "mem_peak"
        /\ claimsOf[id] = 1

\* C31: when every worker has ended (and no ingress request is in progress:
\* the handlers are single steps here), the STOP key is set only if no page has
\* status TODO.
C31_StopOnlyWhenNoTodo ==
    (STOP /\ \A w \in Workers : pc[w] \in Ended)
        => ~ \E id \in DOMAIN row_c : row_c[id].status = "TODO"

\* C32: the status that the table query endpoint reports for a stored page is
\* DONE only if the page's stored status is DONE.
C32_ReportedDoneIsStoredDone ==
    \A id \in DOMAIN row_c :
        get_table_status(row_c[id].key) = "DONE" => row_c[id].status = "DONE"

\* C33: once a table has been deleted (no table record of it is left) and every
\* worker has ended, no cea, cta, cpa or candidateScored document of that table
\* exists.
C33_NoArtifactsOfDeletedTable ==
    \A t \in Tables :
        (table_c[t] = 0 /\ \A w \in Workers : pc[w] \in Ended)
        => /\ OfTable(cea_c, t) = {}
           /\ OfTable(cta_c, t) = {}
           /\ OfTable(cpa_c, t) = {}
           /\ OfTable(candidate_scored_c, t) = {}

\* ============================================================ KG client (lamAPI.py)
\* number of calls issued to one client in SpecKG
NumCalls == 3
\* largest max_concurrent_requests a client is constructed with
MaxPermits == 2
\* ExponentialRetry(attempts=3)
attempts == 3

CallIds == 1..NumCalls
Texts == {"a", "b"}
Methods == {"GET", "POST"}
\* the name asked for by the calls of SpecKG
QueryNames == {"a"}
\* entity ids a row may provide for its cells
Qids == {"Q1", "Q9"}

\* A Python value the client returns: a dict with its keys or a list with its
\* elements, in iteration order; len() is the number of items.
Dict(keys) == [type |-> "dict", items |-> keys]
List(items) == [type |-> "list", items |-> items]
len(v) == Len(v.items)

\* An HTTP reply of the KG service: the Content-Type is application/json or
\* not; the JSON body is null or an object with one key and the value under it.
Reply(json, null, key, value) ==
    [json |-> json, null |-> null, key |-> key, value |-> value]
\* lookup: the "ids" parameter sent for the ids argument, "" for None and the
\* string itself for a string
ids_str(ids) == IF ids = None THEN "" ELSE ids
\* what the service holds for a name; ids sent with the request come first
Candidates(name, ids) ==
    (IF ids = "" THEN <<>> ELSE <<ids>>)
        \o (IF name = "a" THEN <<"Q2", "Q3">> ELSE <<"Q4">>)
Replies(name, ids) ==
    { Reply(FALSE, TRUE, None, Dict(<<>>)),                    \* not JSON
      Reply(TRUE, TRUE, None, Dict(<<>>)),                     \* JSON null
      Reply(TRUE, FALSE, "wikidata", List(Candidates(name, ids))) } \* KG key
\* a JSON object without a KG key
OtherObject == Reply(TRUE, FALSE, "detail", Dict(<<>>))

\* __to_format: the value under the first KG key, {} for null and for a reply
\* that is not JSON, the JSON object itself otherwise
KGKeys == {"wikidata", "dbpedia", "crunchbase"}
to_format(response) ==
    IF response.json
    THEN IF ~response.null /\ response.key \in KGKeys THEN response.value
         ELSE IF response.null THEN Dict(<<>>)
         ELSE Dict(<<response.key>>)
    ELSE Dict(<<>>)

IdleCall == [state |-> "idle", method |-> None, name |-> None, ids |-> "",
             attempt |-> 0,
             outcome |-> None, result |-> Dict(<<>>)]

InFlight == {c \in DOMAIN call : call[c].state = "inflight"}
Waiting == {c \in DOMAIN call : call[c].state = "waiting"}

\* requests sent without the semaphore
Locked_Never == FALSE

\* asyncio.Semaphore.locked(): no permit is available
Locked == semaphore <= 0

\* __submit_get / __submit_post up to "async with self.semaphore": the permit is
\* taken at once when one is free, otherwise the call waits for one
SubmitCall(c, method, name, ids) ==
    /\ IF Locked
       THEN /\ call' = [call EXCEPT ![c] = [IdleCall EXCEPT !.state = "waiting",
                                              !.method = method, !.name = name,
                                              !.ids = ids]]
            /\ UNCHANGED semaphore
       ELSE /\ call' = [call EXCEPT ![c] = [IdleCall EXCEPT !.state = "inflight",
                                              !.method = method, !.name = name,
                                              !.ids = ids, !.attempt = 1]]
            /\ semaphore' = semaphore - 1
    /\ UNCHANGED <<max_concurrent_requests, lamapi_log>>

\* a waiting call is given a permit and its first attempt is sent
Acquire(c) ==
    /\ call[c].state = "waiting"
    /\ ~Locked
    /\ call' = [call EXCEPT ![c].state = "inflight", ![c].attempt = 1]
    /\ semaphore' = semaphore - 1
    /\ UNCHANGED <<max_concurrent_requests, lamapi_log>>
    /\ UNCHANGED <<storeVars, workerVars, http_response, cell_candidates, lookupVars, page_run>>

\* a retry client that keeps retrying whatever the number of attempts made
AttemptFails_NoLimit(c) ==
    /\ call[c].state = "inflight"
    /\ call' = [call EXCEPT ![c].attempt = @ + 1]
    /\ UNCHANGED <<max_concurrent_requests, semaphore, lamapi_log>>
    /\ UNCHANGED <<storeVars, workerVars, http_response, cell_candidates, lookupVars, page_run>>

\* an attempt raises and RetryClient sends the next one after the backoff; the
\* permit is kept
AttemptFails(c) ==
    /\ call[c].state = "inflight"
    /\ call[c].attempt < attempts
    /\ call' = [call EXCEPT ![c].attempt = @ + 1]
    /\ UNCHANGED <<max_concurrent_requests, semaphore, lamapi_log>>
    /\ UNCHANGED <<storeVars, workerVars, http_response, cell_candidates, lookupVars, page_run>>

\* __log_error: one document of the log collection (type, error_message and the
\* traceback do not vary here); "by" tells the documents of two calls apart
LogEntry(c) ==
    [method |-> call[c].method,
     url |-> IF call[c].method = "GET" THEN "lookup" ELSE "entities",
     params |-> IF call[c].method = "GET" THEN call[c].name ELSE "token",
     ids |-> call[c].ids,
     json_data |-> IF call[c].method = "GET" THEN None ELSE call[c].name,
     stack_trace |-> "traceback",
     by |-> c]

\* a last attempt whose exception does not give the permit back
Exhausted_KeepsPermit(c) ==
    /\ call[c].state = "inflight"
    /\ call[c].attempt = attempts
    /\ lamapi_log' = lamapi_log \cup {LogEntry(c)}
    /\ call' = [call EXCEPT ![c].state = "returned", ![c].outcome = "failed",
                            ![c].attempt = 0,
                            ![c].result = Dict(<<"error">>)]
    /\ UNCHANGED <<max_concurrent_requests, semaphore>>
    /\ UNCHANGED <<storeVars, workerVars, http_response, cell_candidates, lookupVars, page_run>>

\* the last attempt raises: the exception leaves the "async with" blocks (the
\* permit is released), is logged, and {"error": str(e)} is returned
Exhausted(c) ==
    /\ call[c].state = "inflight"
    /\ call[c].attempt = attempts
    /\ semaphore' = semaphore + 1
    /\ lamapi_log' = lamapi_log \cup {LogEntry(c)}
    /\ call' = [call EXCEPT ![c].state = "returned", ![c].outcome = "failed",
                            ![c].attempt = 0,
                            ![c].result = Dict(<<"error">>)]
    /\ UNCHANGED max_concurrent_requests
    /\ UNCHANGED <<storeVars, workerVars, http_response, cell_candidates, lookupVars, page_run>>

\* an attempt is answered: __to_format(response) is returned and the permit is
\* released
Respond(c, response) ==
    /\ call[c].state = "inflight"
    /\ semaphore' = semaphore + 1
    /\ call' = [call EXCEPT ![c].state = "returned", ![c].outcome = "answered",
                            ![c].attempt = 0,
                            ![c].result = to_format(response)]
    /\ UNCHANGED <<max_concurrent_requests, lamapi_log>>
    /\ UNCHANGED <<storeVars, workerVars, http_response, cell_candidates, lookupVars, page_run>>

\* a caller of the client enters __submit_get or __submit_post
Submit(c, method, name) ==
    /\ call[c].state = "idle"
    /\ SubmitCall(c, method, name, "")
    /\ UNCHANGED <<storeVars, workerVars, http_response, cell_candidates, lookupVars, page_run>>

\* LamAPI.__init__: the semaphore is built with max_concurrent_requests permits
KGInit ==
    /\ max_concurrent_requests \in 1..MaxPermits
    /\ semaphore = max_concurrent_requests
    /\ call = [c \in CallIds |-> IdleCall]
    /\ lamapi_log = {}

InitKG ==
    /\ StoreInit /\ WorkerInit /\ KGInit /\ LookupIdle /\ PageIdle
    /\ FacadeIdle /\ RankIdle

NextKG ==
    \E c \in CallIds :
        \/ \E method \in Methods, name \in QueryNames : Submit(c, method, name)
        \/ Acquire(c)
        \/ AttemptFails(c)
        \/ Exhausted(c)
        \/ \E response \in Replies(call[c].name, call[c].ids) \cup {OtherObject} :
              Respond(c, response)

SpecKG == InitKG /\ [][NextKG]_vars

\* The same client under the scheduling of the event loop: an attempt ends
\* (ClientTimeout bounds it) by an answer or an exception, the retries are
\* bounded by `attempts`, and a release of the semaphore wakes a waiting call.
Ends(c) ==
    \/ AttemptFails(c)
    \/ Exhausted(c)
    \/ \E response \in Replies(call[c].name, call[c].ids) \cup {OtherObject} :
          Respond(c, response)

FairKG == \A c \in CallIds : WF_vars(Acquire(c)) /\ WF_vars(Ends(c))

\* the calls of a Lookup stage: lookups (GET) of one name
NextKGFair ==
    \E c \in CallIds :
        \/ \E name \in QueryNames : Submit(c, "GET", name)
        \/ Acquire(c)
        \/ Ends(c)

SpecKGFair == InitKG /\ [][NextKGFair]_vars /\ FairKG

\* ============================================================ claims on SpecKG
\* C36: the permits are conserved: the permits available are those the
\* semaphore was built with less one per call that holds one, so that all
\* max_concurrent_requests are available when no request is in flight; and a
\* call that waits for a permit eventually gets one.
C36_PermitsConserved ==
    /\ [](semaphore = max_concurrent_requests - Cardinality(InFlight))
    /\ \A c \in CallIds : (call[c].state = "waiting") ~> (call[c].state = "inflight")

\* C36 witness: a call has ended by exhausted retries, its permit was taken
\* again, and a call waits while no permit is free
C36_Witness ==
    /\ Locked
    /\ Waiting # {}
    /\ \E c \in DOMAIN call : call[c].state = "returned" /\ call[c].outcome = "failed"
    /\ Cardinality(InFlight) = max_concurrent_requests

\* C6: the calls of one client that hold a permit (sent, or between two
\* attempts) are never more than max_concurrent_requests
C6_InFlightBounded == Cardinality(InFlight) <= max_concurrent_requests

\* C6 witness: every permit is taken by GET and POST calls, one of them in a
\* retry, while a further call waits
C6_Witness ==
    /\ Cardinality(InFlight) = max_concurrent_requests
    /\ Waiting # {}
    /\ \E c, d \in InFlight : /\ call[c].method = "GET"
                              /\ call[d].method = "POST"
                              /\ call[c].attempt > 1

\* C13: a call never makes more than 3 attempts; its attempt counter moves only
\* from none to the first attempt, or by one when the attempt in flight has
\* failed, and such a retry step changes no other call; a call at its third
\* attempt makes no further one: its next step returns
C13_RetryDiscipline ==
    [][\A c \in DOMAIN call :
          /\ call'[c].attempt <= attempts
          /\ call'[c].attempt # call[c].attempt
             => \/ /\ call[c].state \in {"idle", "waiting"}
                   /\ call'[c].attempt = 1
                \/ /\ call[c].state = "inflight"
                   /\ call'[c].state = "inflight"
                   /\ call'[c].attempt = call[c].attempt + 1
                   /\ \A d \in DOMAIN call \ {c} : call'[d] = call[d]
                \/ /\ call[c].state = "inflight"
                   /\ call'[c].state = "returned"
          /\ (call[c].state = "inflight" /\ call[c].attempt = attempts
                /\ call'[c] # call[c])
             => call'[c].state = "returned"
          /\ (call[c].state = "inflight" /\ call[c].attempt = attempts
                /\ call'[c].outcome = "failed")
             => lamapi_log' # lamapi_log]_vars

\* C13 witness: one call has ended as a permanent failure while another call
\* is in its second attempt and a third one is in its third
C13_Witness ==
    \E c, d, e \in DOMAIN call :
        /\ call[c].state = "returned" /\ call[c].outcome = "failed"
        /\ call[d].state = "inflight" /\ call[d].attempt = 2
        /\ call[e].state = "inflight" /\ call[e].attempt = attempts

\* C14 (as claimed): when a call is answered with a reply that is not JSON, it
\* returns a value with no entries and a log document of that call is inserted
C14_NonJsonIsLoggedFailure ==
    [][\A c \in DOMAIN call : \A response \in Replies(call[c].name, call[c].ids) :
          (~response.json /\ Respond(c, response))
          => /\ len(call'[c].result) = 0
             /\ \E e \in lamapi_log' \ lamapi_log : e.by = c]_vars

\* C7 (as claimed): a call whose attempts all raised returns a value with no
\* entries and has inserted exactly one log document
C7_PermanentFailureReturnsEmpty ==
    \A c \in DOMAIN call :
        (call[c].state = "returned" /\ call[c].outcome = "failed")
        => /\ len(call[c].result) = 0
           /\ Cardinality({e \in lamapi_log : e.by = c}) = 1

\* ============================================================ Lookup stage (lookup.py)
\* rows of the page
NumRows == 2
\* data["datasetName"] and data["tableName"] of the page (lines 11-12)
lookup_datasetName == "d1"
lookup_tableName == "t1"

\* data.get("lamapi_kwargs", {"kg": "wikidata", "limit": 50})
default_limit == 50

RowIds == 1..NumRows
\* column indices of a row, as enumerate() gives them
Columns == {0, 1}
RowData == [1..Cardinality(Columns) -> Texts]
\* a row of data["rows"]: row["data"] and row.get("ids", None); a row without
\* ids has the empty sequence here
NoIds == <<>>
PlainRows == [data : RowData, ids : {NoIds}]
HintedRows == [data : RowData,
               ids : {NoIds} \cup {[i \in 1..Cardinality(Columns) |-> q] : q \in Qids}]
\* rows with the same text in the first column, any text in the second
SubjectRows == {row \in PlainRows : row.data[1] = "a"}
\* lamapi_kwargs as main reads it off the page: the default when the page has
\* none, otherwise the page's own, with or without a limit
DefaultKwargs == [kg |-> "wikidata", limit |-> default_limit]
PageKwargs == {DefaultKwargs, [kg |-> "wikidata"], [kg |-> "wikidata", limit |-> 1]}

\* qid = ids[i] if ids is not None else None
qid_of(ids, i) == IF ids = NoIds THEN None ELSE ids[i + 1]

NECell(cell, i, candidates, qid) ==
    [kind |-> "NE", text |-> cell, col |-> i, candidates |-> candidates,
     qid |-> qid]
NoTagCell(cell, i) ==
    [kind |-> "NOTAG", text |-> cell, col |-> i, candidates |-> List(<<>>),
     qid |-> None]

LitCell(cell, i) ==
    [kind |-> "LIT", text |-> cell, col |-> i, candidates |-> List(<<>>),
     qid |-> None]

\* the branches tested in the other order: LIT before NE
cell_tag_LitFirst(i) ==
    IF i \in target_LIT THEN "LIT" ELSE IF i \in target_NE THEN "NE" ELSE "NOTAG"

\* the if / elif / else of lines 45-61: NE when the index is in target["NE"],
\* otherwise LIT when it is in target["LIT"], otherwise NOTAG
cell_tag(i) ==
    IF i \in target_NE THEN "NE" ELSE IF i \in target_LIT THEN "LIT" ELSE "NOTAG"

\* an id that is neither a list, nor a string, nor None (a number, say)
NotAString == "<int>"

\* a lookup that takes any ids
raises_ValueError_Never(ids) == FALSE

\* LamAPI.lookup, lines 189-197: ids that are neither a list, a string nor
\* None raise ValueError before any request is made
raises_ValueError(ids) == ids = NotAString

\* self._cache[cell] = candidates
Put(known, cell, candidates) ==
    [t \in DOMAIN known \cup {cell} |-> IF t = cell THEN candidates ELSE known[t]]

\* where a run of _build_row stops: the cells added so far, "awaiting" at an
\* await or "returned", the cache as the run leaves it, and the cell texts
\* whose lookup raised and was logged by _get_candidates during the run
Run(row, state, known) ==
    [row |-> row, state |-> state, known |-> known, errors |-> <<>>]

\* a _build_row that looks every NE cell up, whatever the cache holds
RECURSIVE build_row_NoCache(_, _, _, _)
build_row_NoCache(cells, ids, row, known) ==
    LET i == Len(row) IN
    IF i = Len(cells) THEN Run(row, "returned", known)
    ELSE LET cell == cells[i + 1] IN
         IF cell_tag(i) = "NE" THEN Run(row, "awaiting", known)
         ELSE IF cell_tag(i) = "LIT"
         THEN build_row_NoCache(cells, ids, Append(row, LitCell(cell, i)), known)
         ELSE build_row_NoCache(cells, ids, Append(row, NoTagCell(cell, i)), known)

\* _build_row from the cell after those of `row` up to its next await: a LIT or
\* NOTAG cell and an NE cell found in `known` (the cache) are added
\* at once; an NE cell that is not in the cache stops the run at
\* "await self._get_candidates(...)", unless lookup raises at once: then
\* _get_candidates logs the exception and returns its empty list (lines 72-90),
\* which is cached and given to the cell; after the last cell the row is
\* returned
RECURSIVE build_row(_, _, _, _)
build_row(cells, ids, row, known) ==
    LET i == Len(row) IN
    IF i = Len(cells) THEN Run(row, "returned", known)
    ELSE LET cell == cells[i + 1] IN
         IF cell_tag(i) = "NE"
         THEN IF cell \in DOMAIN known
              THEN build_row(cells, ids,
                             Append(row, NECell(cell, i, known[cell], qid_of(ids, i))),
                             known)
              ELSE IF raises_ValueError(qid_of(ids, i))
              THEN LET rest == build_row(cells, ids,
                                         Append(row, NECell(cell, i, List(<<>>),
                                                            qid_of(ids, i))),
                                         Put(known, cell, List(<<>>)))
                   IN [rest EXCEPT !.errors = <<cell>> \o @]
              ELSE Run(row, "awaiting", known)
         ELSE IF cell_tag(i) = "LIT"
         THEN build_row(cells, ids, Append(row, LitCell(cell, i)), known)
         ELSE build_row(cells, ids, Append(row, NoTagCell(cell, i)), known)

\* the cell a task waits for
Awaited(cells, row) == cells[Len(row) + 1]

\* the documents _get_candidates inserts in the log collection for the lookups
\* of row id_row that raised: datasetName and tableName of the page, the row
\* id, the cell text and the (empty) result
RECURSIVE log_errors(_, _, _)
log_errors(log, id_row, errors) ==
    IF errors = <<>> THEN log
    ELSE log_errors(log \cup {[_id |-> Cardinality(log) + 1,
                               datasetName |-> lookup_datasetName,
                               tableName |-> lookup_tableName,
                               idRow |-> id_row,
                               cell |-> Head(errors),
                               result |-> List(<<>>)]},
                    id_row, Tail(errors))

\* what a run of a row task leaves outside the KG client: the task, the cache
\* and the log collection
AfterRun(r, run) ==
    /\ task' = [task EXCEPT ![r] = [row |-> run.row, state |-> run.state]]
    /\ cache' = run.known
    /\ log_c' = log_errors(log_c, r, run.errors)
    /\ UNCHANGED <<row_c, nextId, table_c, dataset_c, candidate_scored_c, cea_c, cta_c,
                   cpa_c, STOP>>

\* _get_candidates -> lamAPI.lookup(cell, ids=qid, lamapi_kwargs): one GET with
\* the name and the ids string (the kwargs of the page go with every request)
Lookup(r, cell, qid) ==
    /\ requests' = [requests EXCEPT ![cell] = @ + 1]
    /\ SubmitCall(r, "GET", cell, ids_str(qid))

\* the event loop runs a created task for the first time, in creation order,
\* up to its first await
StartTask(r) ==
    /\ r \in DOMAIN task
    /\ task[r].state = "created"
    /\ IF r = 1 THEN TRUE ELSE task[r - 1].state # "created"
    /\ LET run == build_row(rows_data[r].data, rows_data[r].ids, <<>>, cache) IN
       /\ AfterRun(r, run)
       /\ IF run.state = "awaiting"
          THEN Lookup(r, Awaited(rows_data[r].data, run.row),
                      qid_of(rows_data[r].ids, Len(run.row)))
          ELSE UNCHANGED <<requests, kgVars>>
    /\ UNCHANGED <<rows_data, target_NE, target_LIT, lamapi_kwargs, rows>>
    /\ UNCHANGED <<workerVars, http_response, cell_candidates, page_run>>

\* the lookup has returned: the task stores what it got in the cache, adds the
\* cell and runs on to its next await; it is resumed only after every task
\* created before the gather has had its first run
Resume(r) ==
    /\ r \in DOMAIN task
    /\ task[r].state = "awaiting"
    /\ call[r].state = "returned"
    /\ \A q \in RowIds : task[q].state # "created"
    /\ LET cells == rows_data[r].data
           ids == rows_data[r].ids
           cell == Awaited(cells, task[r].row)
           candidates == call[r].result
           known == Put(cache, cell, candidates)
           i == Len(task[r].row)
           run == build_row(cells, ids,
                            Append(task[r].row,
                                   NECell(cell, i, candidates, qid_of(ids, i))),
                            known)
       IN /\ AfterRun(r, run)
          /\ IF run.state = "awaiting"
             THEN Lookup(r, Awaited(cells, run.row), qid_of(ids, Len(run.row)))
             ELSE /\ call' = [call EXCEPT ![r] = IdleCall]
                  /\ UNCHANGED <<requests, max_concurrent_requests, semaphore,
                                 lamapi_log>>
    /\ UNCHANGED <<rows_data, target_NE, target_LIT, lamapi_kwargs, rows>>
    /\ UNCHANGED <<workerVars, http_response, cell_candidates, page_run>>

\* a gather that returns as soon as one task has
gather_FirstCompleted ==
    /\ rows = <<>>
    /\ \E r \in RowIds : task[r].state = "returned"
    /\ rows' = [r \in RowIds |-> task[r].row]
    /\ UNCHANGED <<rows_data, target_NE, target_LIT, lamapi_kwargs, task, cache, requests>>
    /\ UNCHANGED <<storeVars, workerVars, http_response, cell_candidates, kgVars>>

\* "await asyncio.gather(*tasks)" returns once every task has returned, and
\* the rows are appended in task order
gather ==
    /\ rows = <<>>
    /\ \A r \in RowIds : task[r].state = "returned"
    /\ rows' = [r \in RowIds |-> task[r].row]
    /\ UNCHANGED <<rows_data, target_NE, target_LIT, lamapi_kwargs, task, cache, requests>>
    /\ UNCHANGED <<storeVars, workerVars, http_response, cell_candidates, kgVars>>

\* generate_candidates from its gather to its return
generate_candidates == gather /\ UNCHANGED page_run

\* Lookup.__init__ and the create_task loop of generate_candidates, for a page
\* whose rows are drawn from `rowset` and whose kwargs from `kwargs`
LookupInitOver(rowset, kwargs) ==
    /\ rows_data \in [RowIds -> rowset]
    /\ target_NE \in {{0}, {0, 1}}
    /\ target_LIT = {}
    /\ lamapi_kwargs \in kwargs
    /\ task = [r \in RowIds |-> [row |-> <<>>, state |-> "created"]]
    /\ cache = <<>>
    /\ rows = <<>>
    /\ requests = [t \in Texts |-> 0]

\* pages without provided ids and without kwargs of their own
LookupInit == LookupInitOver(PlainRows, {DefaultKwargs})

\* the client of the page: one call slot per row task; the fewest and the most
\* permits
KGOfPage ==
    /\ max_concurrent_requests \in {1, MaxPermits}
    /\ semaphore = max_concurrent_requests
    /\ call = [r \in RowIds |-> IdleCall]
    /\ lamapi_log = {}

InitLookup ==
    /\ StoreInit /\ WorkerInit /\ KGOfPage /\ LookupInit /\ PageIdle
    /\ FacadeIdle /\ RankIdle

NextLookup ==
    \/ generate_candidates
    \/ \E r \in RowIds :
        \/ StartTask(r)
        \/ Resume(r)
        \/ Acquire(r)
        \/ AttemptFails(r)
        \/ Exhausted(r)
        \/ \E response \in Replies(call[r].name, call[r].ids) : Respond(r, response)

SpecLookup == InitLookup /\ [][NextLookup]_vars

\* pages whose rows may provide ids and that may carry kwargs of their own
InitLookupHints ==
    /\ StoreInit /\ WorkerInit /\ KGOfPage /\ PageIdle
    /\ FacadeIdle /\ RankIdle
    /\ LookupInitOver(HintedRows, PageKwargs)

SpecLookupHints == InitLookupHints /\ [][NextLookup]_vars

\* the target of the pages whose columns are tagged in every way: an NE and a
\* LIT column, a column in both lists, a column in neither, no NE column
TagPairs == {[NE |-> {0}, LIT |-> {1}], [NE |-> {0}, LIT |-> {0, 1}],
             [NE |-> {1}, LIT |-> {}], [NE |-> {}, LIT |-> {0}],
             [NE |-> {0, 1}, LIT |-> {1}]}

InitLookupTags ==
    /\ StoreInit /\ WorkerInit /\ KGOfPage /\ PageIdle
    /\ FacadeIdle /\ RankIdle
    /\ rows_data \in [RowIds -> SubjectRows]
    /\ \E tp \in TagPairs : target_NE = tp.NE /\ target_LIT = tp.LIT
    /\ lamapi_kwargs = DefaultKwargs
    /\ task = [r \in RowIds |-> [row |-> <<>>, state |-> "created"]]
    /\ cache = <<>>
    /\ rows = <<>>
    /\ requests = [t \in Texts |-> 0]

SpecLookupTags == InitLookupTags /\ [][NextLookup]_vars

\* rows that provide, for one of their cells, an id that lookup refuses
RaiseRows == [data : {d \in RowData : d[1] = "a"},
              ids : {<<NotAString, "Q1">>, <<"Q1", NotAString>>}]

InitLookupRaise ==
    /\ StoreInit /\ WorkerInit /\ KGOfPage /\ PageIdle
    /\ FacadeIdle /\ RankIdle
    /\ rows_data \in [RowIds -> RaiseRows]
    /\ target_NE = {0, 1}
    /\ target_LIT = {}
    /\ lamapi_kwargs = DefaultKwargs
    /\ task = [r \in RowIds |-> [row |-> <<>>, state |-> "created"]]
    /\ cache = <<>>
    /\ rows = <<>>
    /\ requests = [t \in Texts |-> 0]

SpecLookupRaise == InitLookupRaise /\ [][NextLookup]_vars

\* ============================================================ claims on SpecLookupTags
\* C24: after the stage every row has one cell per column index of its data,
\* in column order, with the text of that column: an NE cell when the index is
\* in target NE, otherwise a LIT cell when it is in target LIT, otherwise a
\* NOTAG cell
C24_OneCellPerColumn ==
    rows # <<>> =>
        \A r \in RowIds :
            /\ Len(rows[r]) = Len(rows_data[r].data)
            /\ \A j \in 1..Len(rows[r]) :
                  /\ rows[r][j].col = j - 1
                  /\ rows[r][j].text = rows_data[r].data[j]
                  /\ rows[r][j].kind =
                        IF (j - 1) \in target_NE THEN "NE"
                        ELSE IF (j - 1) \in target_LIT THEN "LIT"
                        ELSE "NOTAG"

\* C24 witness: the stage has ended on a page with a column that is in both
\* target lists and a column that is LIT only, after a lookup was retried
C24_Witness ==
    /\ rows # <<>>
    /\ target_NE \cap target_LIT # {}
    /\ \E r \in RowIds : rows[r][1].kind = "NE" /\ rows[r][2].kind = "LIT"
    /\ lamapi_log # {}

\* ============================================================ claims on SpecLookup
\* the NE texts of the page
NETexts == {rows_data[r].data[i + 1] : r \in DOMAIN rows_data, i \in target_NE}

\* C5 (as claimed): within one page a distinct text of an NE column is looked
\* up exactly once: never more than one request per text, and one request for
\* every NE text once the stage has ended
C5_OneLookupPerText ==
    /\ \A t \in DOMAIN requests : requests[t] <= 1
    /\ rows # <<>> => \A t \in NETexts : requests[t] = 1

\* C8 (as claimed): after the stage, a cell whose lookup failed for good (the
\* client logged the failure of the call of its row for its text) has an
\* empty candidate list
C8_FailedLookupLeavesEmptyCandidates ==
    rows # <<>> =>
        \A e \in lamapi_log : \A i \in 1..Len(rows[e.by]) :
            (rows[e.by][i].kind = "NE" /\ rows[e.by][i].text = e.params)
            => len(rows[e.by][i].candidates) = 0

\* the cells a step adds to the row of task r without a lookup of their own:
\* all that come after the cell the task was waiting for
AddedFromCache(r) ==
    {j \in 1..Len(task'[r].row) :
        j > Len(task[r].row) + (IF task[r].state = "awaiting" THEN 1 ELSE 0)}

\* C35: once a lookup of a text has completed in the page (its result is in
\* the cache, be it candidates, nothing or a failure), no step issues a lookup
\* of that text, and every NE cell reached afterwards is given what the cache
\* holds for its text.
C35_NoLookupOnceCached ==
    [][/\ \A text \in DOMAIN cache : requests'[text] = requests[text]
       /\ \A r \in DOMAIN task : \A j \in AddedFromCache(r) :
             task'[r].row[j].kind = "NE"
             => /\ task'[r].row[j].text \in DOMAIN cache'
                /\ task'[r].row[j].candidates = cache'[task'[r].row[j].text]]_vars

\* C35 witness: the lookup of the first cell of a row failed for good, the
\* second cell of the row has the same text and was given the cached value, and
\* the text was looked up once in the page
C35_Witness ==
    \E r \in DOMAIN task :
        /\ task[r].state = "returned"
        /\ Len(task[r].row) = 2
        /\ task[r].row[1].kind = "NE" /\ task[r].row[2].kind = "NE"
        /\ task[r].row[1].text = task[r].row[2].text
        /\ task[r].row[1].candidates = Dict(<<"error">>)
        /\ task[r].row[2].candidates = cache[task[r].row[2].text]
        /\ requests[task[r].row[1].text] = 1
        /\ \E q \in DOMAIN task : q # r /\ task[q].state = "returned"

\* ============================================================ claims on SpecLookupRaise
\* the cells a step adds to the row of task r
Added(r) == {j \in 1..Len(task'[r].row) : j > Len(task[r].row)}

\* the cells among them for which the step called lookup with an id that it
\* refuses: an NE cell with such an id whose text was in the cache neither
\* before the step nor through an NE cell the step added before it
RaisedFor(r) ==
    {j \in AddedFromCache(r) :
        /\ task'[r].row[j].kind = "NE"
        /\ task'[r].row[j].qid = NotAString
        /\ task'[r].row[j].text \notin DOMAIN cache
        /\ \A k \in Added(r) :
              (k < j /\ task'[r].row[k].kind = "NE")
              => task'[r].row[k].text # task'[r].row[j].text}

\* C37: lookup called with an id it refuses raises at once (no task waits for
\* an answer to such a call); the stage then inserts one log entry with the
\* page's datasetName and tableName, the row id and the cell text, gives the
\* cell an empty candidate list, and goes on: the task runs to its next await
\* or to the end of its row, no other task is touched, nothing else is
\* logged, and the stage ends with every cell of every row built.
C37_RaisingLookupIsLoggedAndSkipped ==
    [][/\ \A r \in DOMAIN task :
             task'[r].state = "awaiting"
             => qid_of(rows_data[r].ids, Len(task'[r].row)) # NotAString
       /\ \A r \in DOMAIN task :
             /\ \A j \in RaisedFor(r) :
                   /\ task'[r].row[j].candidates = List(<<>>)
                   /\ Cardinality({e \in log_c' \ log_c :
                                      /\ e.datasetName = lookup_datasetName
                                      /\ e.tableName = lookup_tableName
                                      /\ e.idRow = r
                                      /\ e.cell = task'[r].row[j].text}) = 1
             /\ RaisedFor(r) # {}
                => /\ task'[r].state \in {"awaiting", "returned"}
                   /\ task'[r].state = "returned"
                      => Len(task'[r].row) = Len(rows_data[r].data)
                   /\ \A q \in DOMAIN task \ {r} : task'[q] = task[q]
       /\ Cardinality(log_c' \ log_c) =
             Cardinality(UNION {{<<r, j>> : j \in RaisedFor(r)} : r \in DOMAIN task})
       /\ rows' # rows
          => \A r \in RowIds : /\ rows'[r] = task[r].row
                               /\ Len(rows'[r]) = Len(rows_data[r].data)]_vars

\* C37 witness: the stage has ended; the lookup of one cell raised and was
\* logged, the cell has no candidates, another cell of the same row and a cell
\* of another row have the candidates of their lookups
C37_Witness ==
    /\ rows # <<>>
    /\ \E e \in log_c : \E j, k \in 1..Len(rows[e.idRow]) :
          /\ rows[e.idRow][j].text = e.cell
          /\ rows[e.idRow][j].qid = NotAString
          /\ rows[e.idRow][j].candidates = List(<<>>)
          /\ len(rows[e.idRow][k].candidates) > 0
          /\ rows[e.idRow][k].candidates.type = "list"
          /\ \E q \in RowIds \ {e.idRow} : \E i \in 1..Len(rows[q]) :
                /\ len(rows[q][i].candidates) > 0
                /\ rows[q][i].candidates.type = "list"

\* ============================================================ claims on SpecLookupHints
\* the values a lookup of `name` sent with `ids` can return
ResultsOf(name, ids) ==
    {to_format(response) : response \in Replies(name, ids)} \cup {Dict(<<"error">>)}

\* the NE cells of the row gathered for r
NECellsOf(r) == {rows[r][i] : i \in {j \in 1..Len(rows[r]) : rows[r][j].kind = "NE"}}

\* C15 (as claimed): after the stage, the candidates of every NE cell of a row
\* that carries ids are a result of the lookup of the cell's text sent with
\* that row's ids[col]
C15_CandidatesFromOwnIds ==
    rows # <<>> =>
        \A r \in RowIds :
            rows_data[r].ids # NoIds =>
                \A c \in NECellsOf(r) :
                    c.candidates \in
                        ResultsOf(c.text, ids_str(qid_of(rows_data[r].ids, c.col)))

\* the answer of a service that answers every request with its candidates
Answer(name, qid) == List(Candidates(name, ids_str(qid)))

\* the row a task builds when, after the first run of all tasks (the cache is
\* empty then, so its first NE cell is awaited), it is resumed and answered
\* without any other task running in between
RECURSIVE ref_row(_, _, _, _, _)
ref_row(cells, ids, row, known, first) ==
    LET i == Len(row) IN
    IF i = Len(cells) THEN [row |-> row, known |-> known]
    ELSE LET cell == cells[i + 1]
             qid == qid_of(ids, i)
         IN IF i \in target_NE
            THEN IF ~first /\ cell \in DOMAIN known
                 THEN ref_row(cells, ids,
                              Append(row, NECell(cell, i, known[cell], qid)),
                              known, FALSE)
                 ELSE ref_row(cells, ids,
                              Append(row, NECell(cell, i, Answer(cell, qid), qid)),
                              Put(known, cell, Answer(cell, qid)), FALSE)
            ELSE ref_row(cells, ids, Append(row, NoTagCell(cell, i)), known, first)

\* the rows of the run in which the tasks are answered and resumed one after
\* the other in row order
RECURSIVE ref_from(_, _)
ref_from(r, known) ==
    IF r > NumRows THEN <<>>
    ELSE LET res == ref_row(rows_data[r].data, rows_data[r].ids, <<>>, known, TRUE)
         IN <<res.row>> \o ref_from(r + 1, res.known)

ReferenceRows == ref_from(1, <<>>)

\* every lookup of the run was answered with the candidates of its request
AllAnswered ==
    \A r \in DOMAIN rows : \A c \in NECellsOf(r) :
        c.candidates.type = "list" /\ len(c.candidates) > 0

\* C16 (as claimed): with a service that answers every request with its
\* candidates, every run of the stage on a page ends with the same rows: those
\* of the run that answers the tasks in row order
C16_SameRowsWhateverTheOrder ==
    (rows # <<>> /\ AllAnswered) => rows = ReferenceRows

\* the limit of the page: that of its lamapi_kwargs, 50 when it gives none
lookup_limit ==
    IF "limit" \in DOMAIN lamapi_kwargs THEN lamapi_kwargs.limit ELSE default_limit

\* C17 (as claimed): after the stage, the candidates of every NE cell are
\* empty or at most the page's lookup limit in number
C17_CandidatesWithinLimit ==
    rows # <<>> =>
        \A r \in RowIds : \A c \in NECellsOf(r) :
            len(c.candidates) <= lookup_limit

\* ============================================================ one page in main (computation.py 74-124)
\* LamAPI.__init__(..., max_concurrent_requests=50, ...): main gives no other
default_max_concurrent_requests == 50

\* the stage after `stage` in the try block; Decision follows the last one
NextStage(stage) ==
    IF stage = Stages[Len(Stages)] THEN "Decision"
    ELSE Stages[IndexOf(Stages, stage) + 1]

\* the rows whose candidates a Prediction has not scored yet, given the scored
Unscored(scored) == RowIds \ scored
\* a Prediction goes through the rows in order
NextRow(scored) == CHOOSE r \in Unscored(scored) : \A q \in Unscored(scored) : r <= q

\* lines 80-106: compute_datatype and rows_normalization
DataPrep ==
    /\ page_run.pos = "DataPrep"
    /\ page_run' = [page_run EXCEPT !.pos = NextStage("DataPrep")]
    /\ UNCHANGED <<storeVars, workerVars, http_response, cell_candidates, kgVars, lookupVars>>

\* lines 107-108 and lookup.py 22-33: the Lookup object is built and
\* generate_candidates creates one task per row
LookupBegin ==
    /\ page_run.pos = "Lookup"
    /\ task = <<>>
    /\ task' = [r \in RowIds |-> [row |-> <<>>, state |-> "created"]]
    /\ UNCHANGED <<rows_data, target_NE, target_LIT, lamapi_kwargs, cache, rows, requests>>
    /\ UNCHANGED <<storeVars, workerVars, http_response, cell_candidates, kgVars, page_run>>

\* lines 108-109: generate_candidates returns from its gather and main goes on
\* with l.get_rows()
LookupEnd ==
    /\ page_run.pos = "Lookup"
    /\ DOMAIN task = RowIds
    /\ gather
    /\ page_run' = [page_run EXCEPT !.pos = NextStage("Lookup")]

\* line 110: FeauturesExtraction(rows, lamAPI).compute_feautures()
FeaturesInitial ==
    /\ page_run.pos = "FeaturesInitial"
    /\ page_run' = [page_run EXCEPT !.pos = NextStage("FeaturesInitial")]
    /\ UNCHANGED <<storeVars, workerVars, http_response, cell_candidates, kgVars, lookupVars>>

\* line 111: Prediction(rows, features, pn_model).compute_prediction("rho")
\* writes rho into the candidates, one row after the other; the call returns
\* after the last row
PredictInitial ==
    /\ page_run.pos = "PredictInitial"
    /\ LET scored == page_run.rho \cup {NextRow(page_run.rho)} IN
       page_run' = [page_run EXCEPT
                      !.rho = scored,
                      !.pos = IF scored = RowIds THEN NextStage("PredictInitial")
                              ELSE @]
    /\ UNCHANGED <<storeVars, workerVars, http_response, cell_candidates, kgVars, lookupVars>>

\* lines 113-114: FeaturesExtractionRevision(rows).compute_features() builds
\* revision._cta and revision._cpa_pair from the top-1 candidates as they are
\* scored at that moment
FeaturesRevision ==
    /\ page_run.pos = "FeaturesRevision"
    /\ page_run' = [page_run EXCEPT
                      !.profile = [built |-> TRUE,
                                   score |-> IF page_run.rho2 = {} THEN "rho"
                                             ELSE "rho'",
                                   rows |-> page_run.rho,
                                   rescored |-> page_run.rho2],
                      !.pos = NextStage("FeaturesRevision")]
    /\ UNCHANGED <<storeVars, workerVars, http_response, cell_candidates, kgVars, lookupVars>>

\* line 115: Prediction(rows, features, rn_model).compute_prediction("rho'");
\* it is given rows and features, not the revision object
PredictFinal ==
    /\ page_run.pos = "PredictFinal"
    /\ LET scored == page_run.rho2 \cup {NextRow(page_run.rho2)} IN
       page_run' = [page_run EXCEPT
                      !.rho2 = scored,
                      !.pos = IF scored = RowIds THEN NextStage("PredictFinal")
                              ELSE @]
    /\ UNCHANGED <<storeVars, workerVars, http_response, cell_candidates, kgVars, lookupVars>>

\* lines 116-124: Decision is given revision._cta and revision._cpa_pair as
\* they are and elects from them
Decision ==
    /\ page_run.pos = "Decision"
    /\ page_run' = [page_run EXCEPT !.decided = page_run.profile, !.pos = "end"]
    /\ UNCHANGED <<storeVars, workerVars, http_response, cell_candidates, kgVars, lookupVars>>

\* lines 62-77: the page is read off the claimed document and the client is
\* built with its default number of permits
InitPage ==
    /\ StoreInit /\ WorkerInit
    /\ FacadeIdle /\ RankIdle
    /\ max_concurrent_requests = default_max_concurrent_requests
    /\ semaphore = max_concurrent_requests
    /\ call = [r \in RowIds |-> IdleCall]
    /\ lamapi_log = {}
    /\ rows_data \in [RowIds -> SubjectRows]
    /\ target_NE \in {{0}, {0, 1}}
    /\ target_LIT = {}
    /\ lamapi_kwargs = DefaultKwargs
    /\ task = <<>>
    /\ cache = <<>>
    /\ rows = <<>>
    /\ requests = [t \in Texts |-> 0]
    /\ page_run = [pos |-> Stages[1], rho |-> {}, rho2 |-> {},
                   profile |-> NoProfile, decided |-> NoProfile]

NextPage ==
    \/ DataPrep
    \/ LookupBegin
    \/ \E r \in RowIds :
        \/ StartTask(r)
        \/ Resume(r)
        \/ AttemptFails(r)
        \/ Exhausted(r)
        \/ \E response \in Replies(call[r].name, call[r].ids) : Respond(r, response)
    \/ LookupEnd
    \/ FeaturesInitial
    \/ PredictInitial
    \/ FeaturesRevision
    \/ PredictFinal
    \/ Decision

SpecPage == InitPage /\ [][NextPage]_vars

\* ============================================================ claims on SpecPage
\* C18 (as claimed): the profiles Decision elects from were computed from the
\* final scores, after the second Prediction has scored every row
C18_DecisionUsesRescoredProfile ==
    page_run.pos = "end" =>
        /\ page_run.decided.built
        /\ page_run.decided.score = "rho'"
        /\ page_run.decided.rescored = RowIds

\* C19: the aggregation of Feature Revision is made when every row has its rho
\* and no row has a rho' yet, and no rho' is written before it is made
C19_AggregationOnStableScores ==
    /\ page_run.profile.built =>
          /\ page_run.profile.rows = RowIds
          /\ page_run.profile.rescored = {}
    /\ page_run.rho2 # {} => page_run.profile.built

\* C19 witness: the aggregation was made and the second Prediction has scored
\* a first row but not the last
C19_Witness ==
    /\ page_run.profile.built
    /\ page_run.rho = RowIds
    /\ page_run.rho2 # {}
    /\ page_run.rho2 # RowIds

\* the order of the stages as the claim gives it
ClaimedOrder == <<"DataPrep", "Lookup", "FeaturesInitial", "PredictInitial",
                  "FeaturesRevision", "PredictFinal", "Decision", "end">>

\* C20: the position in the try block only moves from a stage to the next one
\* of the claimed order, and it leaves Lookup only when every row task has
\* returned and no request of the page is waiting or in flight
C20_StageOrderAndFanIn ==
    [][page_run'.pos # page_run.pos =>
          /\ \E i \in 1..(Len(ClaimedOrder) - 1) :
                /\ page_run.pos = ClaimedOrder[i]
                /\ page_run'.pos = ClaimedOrder[i + 1]
          /\ page_run.pos = "Lookup" =>
                /\ \A r \in RowIds : task'[r].state = "returned"
                /\ \A r \in RowIds : call'[r].state \notin {"waiting", "inflight"}
                /\ Len(rows') = NumRows]_vars

\* C20 witness: a page has gone through all stages after a Lookup stage in
\* which the same text was requested by two tasks
C20_Witness ==
    /\ page_run.pos = "end"
    /\ \E t \in Texts : requests[t] > 1

\* ============================================================ HTTP facade (app.py)
\* size of the pool of row-document _ids in SpecFacade
FacadePages == 3
\* ALLIGATOR_TOKEN, and a token that differs from it
API_TOKEN == "token"
Tokens == {API_TOKEN, "other"}
\* the tables a client submits: t1 fills one page, every other table two
TablePages == [t \in Tables |-> IF t.tableName = "t1" THEN 1 ELSE 2]
\* the requests of SpecFacade are about the tables of one dataset
FacadeDatasets == {"d1"}
FacadeTables == {t \in Tables : t.datasetName \in FacadeDatasets}
\* the bodies of createWithArray: one table, or two (the same one twice included)
Bodies == {<<t>> : t \in FacadeTables} \cup {<<t, u>> : t, u \in FacadeTables}
\* no page argument in the query string
NoPage == 0

\* validate_token (lines 71-72)
validate_token(token) == token = API_TOKEN

Response(endpoint, token, tables, raised, code) ==
    [endpoint |-> endpoint, token |-> token, tables |-> tables, raised |-> raised,
     code |-> code, body |-> NoBody]

\* a handler returns without a call on the store or on the job-signal store
Return(endpoint, token, tables, raised, code) ==
    /\ http_response' = Response(endpoint, token, tables, raised, code)
    /\ UNCHANGED storeVars

\* the pages a list of page documents adds up to
NumPages(tables) == Len(get_data(tables, TablePages))

\* CreateWithArray.post (lines 390-435)
CreateWithArray_post(token, tables, fault) ==
    /\ fault \in {"none", "json", "store"}
    /\ IF ~validate_token(token)
       THEN Return("CreateWithArray.post", token, tables, None, 403)
       ELSE IF fault = "json"
       THEN \* request.get_json() or the reading of the names raises (404-412)
            Return("CreateWithArray.post", token, tables, "InvalidJson", 400)
       ELSE LET stored == store_tables(table_c, tables) IN
            /\ table_c' = stored.coll
            /\ UNCHANGED <<candidate_scored_c, cea_c, cta_c, cpa_c, log_c>>
            /\ IF stored.raised
               THEN \* line 417 raises: caught at 431, printed, 202 returned
                    /\ UNCHANGED <<row_c, nextId, dataset_c, STOP>>
                    /\ http_response' = Response("CreateWithArray.post", token, tables,
                                                 "DuplicateKeyError", 202)
               ELSE /\ dataset_c' = store_datasets(dataset_c, tables)
                    /\ IF fault = "store"
                       THEN \* insert_many (421) raises: caught, printed, 202
                            /\ UNCHANGED <<row_c, nextId, STOP>>
                            /\ http_response' = Response("CreateWithArray.post", token,
                                                         tables, "Exception", 202)
                       ELSE /\ nextId + NumPages(tables) - 1 <= FacadePages
                            /\ row_c' = insert_many(row_c, nextId,
                                                    get_data(tables, TablePages))
                            /\ nextId' = nextId + NumPages(tables)
                            /\ STOP' = FALSE
                            /\ http_response' = Response("CreateWithArray.post", token,
                                                         tables, None, 202)
    /\ UNCHANGED <<workerVars, stageVars, cell_candidates>>

\* DatasetTable.post (lines 670-725)
DatasetTable_post(token, t, fault) ==
    /\ fault \in {"none", "file", "store"}
    /\ IF ~validate_token(token)
       THEN Return("DatasetTable.post", token, <<t>>, None, 403)
       ELSE IF fault = "file"
       THEN \* the file is missing or cannot be parsed as CSV (692-700)
            Return("DatasetTable.post", token, <<t>>, "Exception", 400)
       ELSE LET stored == store_tables(table_c, <<t>>) IN
            /\ table_c' = stored.coll
            /\ UNCHANGED <<candidate_scored_c, cea_c, cta_c, cpa_c, log_c>>
            /\ IF stored.raised
               THEN \* except pymongo.errors.DuplicateKeyError: pass (715-716)
                    /\ UNCHANGED <<row_c, nextId, dataset_c, STOP>>
                    /\ http_response' = Response("DatasetTable.post", token, <<t>>,
                                                 "DuplicateKeyError", 202)
               ELSE /\ dataset_c' = store_datasets(dataset_c, <<t>>)
                    /\ IF fault = "store"
                       THEN \* insert_many (705) raises: 400 (718-723)
                            /\ UNCHANGED <<row_c, nextId, STOP>>
                            /\ http_response' = Response("DatasetTable.post", token,
                                                         <<t>>, "Exception", 400)
                       ELSE /\ nextId + NumPages(<<t>>) - 1 <= FacadePages
                            /\ row_c' = insert_many(row_c, nextId,
                                                    get_data(<<t>>, TablePages))
                            /\ nextId' = nextId + NumPages(<<t>>)
                            /\ STOP' = FALSE
                            /\ http_response' = Response("DatasetTable.post", token,
                                                         <<t>>, None, 202)
    /\ UNCHANGED <<workerVars, stageVars, cell_candidates>>

\* Dataset.post (lines 520-554): insert_one under the unique index
Dataset_post(token, d) ==
    /\ IF ~validate_token(token)
       THEN Return("Dataset.post", token, <<>>, None, 403)
       ELSE IF DuplicateKey(dataset_c, d)
       THEN Return("Dataset.post", token, <<>>, "DuplicateKeyError", 400)
       ELSE /\ dataset_c' = [dataset_c EXCEPT ![d] = @ + 1]
            /\ http_response' = Response("Dataset.post", token, <<>>, None, 200)
            /\ UNCHANGED <<row_c, nextId, table_c, candidate_scored_c, cea_c, cta_c,
                           cpa_c, log_c, STOP>>
    /\ UNCHANGED <<workerVars, stageVars, cell_candidates>>

\* _delete_dataset (lines 635-643): delete_one on the dataset collection,
\* delete_many on the others
delete_dataset(d) ==
    /\ dataset_c' = [dataset_c EXCEPT ![d] = IF @ > 0 THEN @ - 1 ELSE 0]
    /\ row_c' = [id \in {i \in DOMAIN row_c : row_c[i].key.table.datasetName # d} |->
                    row_c[id]]
    /\ table_c' = [t \in DOMAIN table_c |->
                      IF t.datasetName = d THEN 0 ELSE table_c[t]]
    /\ cea_c' = {x \in cea_c : x.key.table.datasetName # d}
    /\ cta_c' = {x \in cta_c : x.key.table.datasetName # d}
    /\ cpa_c' = {x \in cpa_c : x.key.table.datasetName # d}
    /\ candidate_scored_c' = {x \in candidate_scored_c : x.key.table.datasetName # d}

\* DatasetID.delete (lines 611-633)
DatasetID_delete(token, d) ==
    /\ IF ~validate_token(token)
       THEN Return("DatasetID.delete", token, <<>>, None, 403)
       ELSE /\ delete_dataset(d)
            /\ http_response' = Response("DatasetID.delete", token, <<>>, None, 200)
            /\ UNCHANGED <<nextId, log_c, STOP>>
    /\ UNCHANGED <<workerVars, stageVars, cell_candidates>>

\* TableID.delete (lines 935-963)
TableID_delete(token, t) ==
    /\ IF ~validate_token(token)
       THEN Return("TableID.delete", token, <<t>>, None, 403)
       ELSE /\ delete_table(t)
            /\ http_response' = Response("TableID.delete", token, <<t>>, None, 200)
            /\ UNCHANGED <<nextId, dataset_c, log_c, STOP>>
    /\ UNCHANGED <<workerVars, stageVars, cell_candidates>>

\* a find that returns the newest page first
RECURSIVE find_NewestFirst(_, _, _)
find_NewestFirst(t, page, id) ==
    IF id >= nextId THEN <<>>
    ELSE find_NewestFirst(t, page, id + 1)
            \o (IF /\ id \in DOMAIN row_c
                    /\ row_c[id].key.table = t
                    /\ (page = NoPage \/ row_c[id].key.page = page)
                 THEN <<id>> ELSE <<>>)

\* row_c.find(query): the _ids of the matching pages in the order of the
\* result, the order in which they were inserted
RECURSIVE find(_, _, _)
find(t, page, id) ==
    IF id >= nextId THEN <<>>
    ELSE (IF /\ id \in DOMAIN row_c
             /\ row_c[id].key.table = t
             /\ (page = NoPage \/ row_c[id].key.page = page)
          THEN <<id>> ELSE <<>>) \o find(t, page, id + 1)

\* buffer["rows"] += o["rows"] over the pages of the result
RECURSIVE buffer_rows(_)
buffer_rows(ids) ==
    IF ids = <<>> THEN <<>> ELSE row_c[Head(ids)].rows \o buffer_rows(Tail(ids))

\* _get_table (lines 844-874): header, rows and nrows of what it returns; with
\* no page argument the rows of all pages are appended to those of the first
get_table(t, page) ==
    LET results == find(t, page, 1) IN
    [header |-> row_c[Head(results)].header,
     rows |-> buffer_rows(results),
     nrows |-> Len(buffer_rows(results))]

\* the float NaN, and None, as values of a cell
NaN == <<"nan", 0>>
NoneCell == <<"None", 0>>

\* _replace_nan_with_none (lines 832-842) on what _get_table returns: a float
\* NaN becomes None, every other value is returned as it is
replace_nan_with_none(out) ==
    LET value(v) == IF v = NaN THEN NoneCell ELSE v IN
    [header |-> [i \in DOMAIN out.header |-> value(out.header[i])],
     rows |-> [k \in DOMAIN out.rows |->
                 [idRow |-> out.rows[k].idRow,
                  data |-> [i \in DOMAIN out.rows[k].data |->
                              value(out.rows[k].data[i])]]],
     nrows |-> out.nrows]

\* what TableID.get returns for a table that is found (lines 824-827)
table_out(t, page) == replace_nan_with_none(get_table(t, page))

\* TableID.get (lines 795-830); parse_args answers 400 itself when the page
\* argument is not an integer
TableID_get(token, t, page, page_ok) ==
    /\ IF ~page_ok
       THEN http_response' = Response("TableID.get", token, <<t>>, "BadRequest", 400)
       ELSE IF ~validate_token(token)
       THEN http_response' = Response("TableID.get", token, <<t>>, None, 403)
       ELSE IF find(t, page, 1) = <<>>
       THEN http_response' = Response("TableID.get", token, <<t>>, None, 404)
       ELSE http_response' = [Response("TableID.get", token, <<t>>, None, 200)
                                 EXCEPT !.body = table_out(t, page)]
    /\ UNCHANGED <<storeVars, workerVars, stageVars, cell_candidates>>

\* Dataset.get (lines 466-508): a page argument that is not numeric is answered
\* 403 before the token is looked at
Dataset_get(token, page_ok) ==
    /\ http_response' =
          Response("Dataset.get", token, <<>>, None,
                   IF ~page_ok \/ ~validate_token(token) THEN 403 ELSE 200)
    /\ UNCHANGED <<storeVars, workerVars, stageVars, cell_candidates>>

\* DatasetID.get (lines 575-609)
DatasetID_get(token) ==
    /\ http_response' =
          Response("DatasetID.get", token, <<>>, None,
                   IF ~validate_token(token) THEN 403 ELSE 200)
    /\ UNCHANGED <<storeVars, workerVars, stageVars, cell_candidates>>

\* DatasetTable.get (lines 737-774); parse_args answers 400 itself when the
\* page argument is not an integer
DatasetTable_get(token, page_ok) ==
    /\ http_response' =
          IF ~page_ok
          THEN Response("DatasetTable.get", token, <<>>, "BadRequest", 400)
          ELSE Response("DatasetTable.get", token, <<>>, None,
                        IF ~validate_token(token) THEN 403 ELSE 200)
    /\ UNCHANGED <<storeVars, workerVars, stageVars, cell_candidates>>

\* what the workers do to the row collection, as the facade sees it:
\* find_one_and_update of computation.py:55 on a TODO page
find_one_and_update(id) ==
    /\ id \in DOMAIN row_c
    /\ Matches(row_c[id])
    /\ row_c' = [row_c EXCEPT ![id].status = "DOING"]
    /\ UNCHANGED <<nextId, table_c, dataset_c, candidate_scored_c, cea_c, cta_c,
                   cpa_c, log_c, STOP>>
    /\ UNCHANGED <<workerVars, stageVars, http_response, cell_candidates>>

\* Decision.store_data of computation.py:124 for the page the worker was
\* returned: the candidateScored, cea, cta and cpa documents of the page
store_data(id) ==
    /\ id \in DOMAIN row_c
    /\ row_c[id].status = "DOING"
    /\ ~HasAllArtifacts(row_c[id].key)
    /\ LET doc == [key |-> row_c[id].key, by |-> id]
           perRow == {[key |-> row_c[id].key, by |-> id, row |-> r] : r \in 1..PageRows}
       IN /\ candidate_scored_c' = candidate_scored_c \cup perRow
          /\ cea_c' = cea_c \cup perRow
          /\ cta_c' = cta_c \cup {doc}
          /\ cpa_c' = cpa_c \cup {doc}
    /\ UNCHANGED <<row_c, nextId, table_c, dataset_c, log_c, STOP>>
    /\ UNCHANGED <<workerVars, stageVars, http_response, cell_candidates>>

\* update_one of computation.py:136 on the page the worker was returned, once
\* line 124 has returned
update_one(id) ==
    /\ id \in DOMAIN row_c
    /\ row_c[id].status = "DOING"
    /\ HasAllArtifacts(row_c[id].key)
    /\ row_c' = [row_c EXCEPT ![id] = obj_row_update(@)]
    /\ UNCHANGED <<nextId, table_c, dataset_c, candidate_scored_c, cea_c, cta_c,
                   cpa_c, log_c, STOP>>
    /\ UNCHANGED <<workerVars, stageVars, http_response, cell_candidates>>

InitFacade ==
    /\ StoreInit /\ WorkerInit /\ KGIdle /\ LookupIdle /\ PageIdle
    /\ FacadeIdle /\ RankIdle

NextFacade ==
    \/ \E token \in Tokens, tables \in Bodies, fault \in {"none", "json", "store"} :
          CreateWithArray_post(token, tables, fault)
    \/ \E token \in Tokens, t \in FacadeTables, fault \in {"none", "file", "store"} :
          DatasetTable_post(token, t, fault)
    \/ \E token \in Tokens, d \in FacadeDatasets : Dataset_post(token, d)
    \/ \E token \in Tokens, d \in FacadeDatasets : DatasetID_delete(token, d)
    \/ \E token \in Tokens, t \in FacadeTables : TableID_delete(token, t)
    \/ \E token \in Tokens, t \in FacadeTables, page \in {NoPage, 1}, page_ok \in BOOLEAN :
          TableID_get(token, t, page, page_ok)
    \/ \E token \in Tokens, page_ok \in BOOLEAN : Dataset_get(token, page_ok)
    \/ \E token \in Tokens : DatasetID_get(token)
    \/ \E token \in Tokens, page_ok \in BOOLEAN : DatasetTable_get(token, page_ok)
    \/ \E id \in 1..FacadePages : find_one_and_update(id)
    \/ \E id \in 1..FacadePages : store_data(id)
    \/ \E id \in 1..FacadePages : update_one(id)

SpecFacade == InitFacade /\ [][NextFacade]_vars

\* ============================================================ claims on SpecFacade
\* C25: there is at most one table record per (datasetName, tableName) and at
\* most one dataset record per datasetName, whatever uploads, dataset
\* creations and deletions were answered; a step that answers the upload of a
\* table whose record exists adds no table record for it
C25_OneRecordPerKey ==
    [][/\ \A t \in Tables : table_c'[t] <= 1
       /\ \A d \in Datasets : dataset_c'[d] <= 1
       /\ \A t \in Tables : table_c[t] >= 1 => table_c'[t] <= table_c[t]]_vars

\* C25 witness: the file upload of a table that already exists, with its pages
\* stored, was answered, and its record and the record of its dataset are single
C25_Witness ==
    /\ http_response.endpoint = "DatasetTable.post"
    /\ http_response.raised = "DuplicateKeyError"
    /\ table_c[http_response.tables[1]] = 1
    /\ dataset_c[http_response.tables[1].datasetName] = 1
    /\ find(http_response.tables[1], NoPage, 1) # <<>>

\* the pages of a table are stored
Ingested(t) == find(t, NoPage, 1) # <<>>

C27_AcceptedMeansEnqueued ==
    [][(/\ http_response' # http_response
        /\ http_response'.endpoint = "CreateWithArray.post"
        /\ http_response'.code = 202)
       => /\ \A i \in 1..Len(http_response'.tables) :
                \E id \in DOMAIN row_c' \ DOMAIN row_c :
                    row_c'[id].key.table = http_response'.tables[i]
          /\ ~STOP']_vars

\* C28 (as claimed): a step that answers a request whose token is not the
\* configured one answers 403 and changes nothing in the store and leaves the
\* STOP key as it is
C28_WrongTokenForbidden ==
    [][(/\ http_response' # http_response
        /\ http_response'.token # API_TOKEN)
       => /\ http_response'.code = 403
          /\ UNCHANGED storeVars]_vars

\* ============================================================ deletes over a processed store
\* Requests with the right token on the tables of every dataset: uploads of
\* one table, the worker's writes on a page, and the two delete endpoints.
InitDelete == InitFacade

NextDelete ==
    \/ \E t \in Tables : CreateWithArray_post(API_TOKEN, <<t>>, "none")
    \/ \E id \in 1..FacadePages : find_one_and_update(id)
    \/ \E id \in 1..FacadePages : store_data(id)
    \/ \E id \in 1..FacadePages : update_one(id)
    \/ \E t \in Tables : TableID_delete(API_TOKEN, t)
    \/ \E d \in Datasets : DatasetID_delete(API_TOKEN, d)

SpecDelete == InitDelete /\ [][NextDelete]_vars

\* the _ids of the pages of table t in a row collection
PagesOf(coll, t) == {id \in DOMAIN coll : coll[id].key.table = t}
\* no page is being processed
NoWorkerRunning == \A id \in DOMAIN row_c : row_c[id].status # "DOING"

\* C34: with no worker running, a successful table delete removes every row,
\* table, cea, cta, cpa and candidateScored document of that table and leaves
\* the documents of every other table unchanged; a successful dataset delete
\* does the same for every table of the dataset and removes the dataset record.
C34_DeleteRemovesTheTableOnly ==
    [][NoWorkerRunning =>
        /\ \A t \in Tables :
              TableID_delete(API_TOKEN, t) =>
                /\ PagesOf(row_c', t) = {}
                /\ table_c'[t] = 0
                /\ OfTable(cea_c', t) = {}
                /\ OfTable(cta_c', t) = {}
                /\ OfTable(cpa_c', t) = {}
                /\ OfTable(candidate_scored_c', t) = {}
                /\ \A u \in Tables \ {t} :
                      /\ PagesOf(row_c', u) = PagesOf(row_c, u)
                      /\ \A id \in PagesOf(row_c, u) : row_c'[id] = row_c[id]
                      /\ table_c'[u] = table_c[u]
                      /\ OfTable(cea_c', u) = OfTable(cea_c, u)
                      /\ OfTable(cta_c', u) = OfTable(cta_c, u)
                      /\ OfTable(cpa_c', u) = OfTable(cpa_c, u)
                      /\ OfTable(candidate_scored_c', u) = OfTable(candidate_scored_c, u)
        /\ \A d \in Datasets :
              DatasetID_delete(API_TOKEN, d) =>
                /\ dataset_c'[d] = 0
                /\ \A e \in Datasets \ {d} : dataset_c'[e] = dataset_c[e]
                /\ \A t \in Tables :
                      IF t.datasetName = d
                      THEN /\ PagesOf(row_c', t) = {}
                           /\ table_c'[t] = 0
                           /\ OfTable(cea_c', t) = {}
                           /\ OfTable(cta_c', t) = {}
                           /\ OfTable(cpa_c', t) = {}
                           /\ OfTable(candidate_scored_c', t) = {}
                      ELSE /\ PagesOf(row_c', t) = PagesOf(row_c, t)
                           /\ \A id \in PagesOf(row_c, t) : row_c'[id] = row_c[id]
                           /\ table_c'[t] = table_c[t]
                           /\ OfTable(cea_c', t) = OfTable(cea_c, t)
                           /\ OfTable(cta_c', t) = OfTable(cta_c, t)
                           /\ OfTable(cpa_c', t) = OfTable(cpa_c, t)
                           /\ OfTable(candidate_scored_c', t) =
                                 OfTable(candidate_scored_c, t)]_vars

\* a table delete has been answered 200, documents are gone from the row
\* collection, and a processed table of the other dataset is still there with
\* its artifacts
C34_Witness ==
    /\ http_response.endpoint = "TableID.delete"
    /\ http_response.code = 200
    /\ NoWorkerRunning
    /\ Cardinality(DOMAIN row_c) < nextId - 1
    /\ PagesOf(row_c, http_response.tables[1]) = {}
    /\ \E u \in Tables :
          /\ u.datasetName # http_response.tables[1].datasetName
          /\ table_c[u] = 1
          /\ PagesOf(row_c, u) # {}
          /\ \A id \in PagesOf(row_c, u) :
                row_c[id].status = "DONE" /\ HasAllArtifacts(row_c[id].key)

\* ----------------------------------------------------------- candidate ranking
\* The scoring stages of main (lines 110-115) over the candidate list of one
\* NE cell.  A score is written in tenths (8 is 0.8); an id is written as the
\* sequence of the digits that follow its letter (Q090 is <<0, 9, 0>>).

\* number of score values a model may give, counted down from 0.8
ScoreLevels == 2
Scores == {8 - k : k \in 0..(ScoreLevels - 1)}
\* value of a score field that no stage has written
NoScore == 0

Q090 == <<0, 9, 0>>
Q100 == <<1, 0, 0>>
Q5 == <<5>>
CandidateIds == {Q090, Q100, Q5}

\* the orders in which the KG service may return n entities
KGLists(n) ==
    {l \in [1..n -> CandidateIds] : \A i, j \in 1..n : l[i] = l[j] => i = j}

\* the candidate built from the entity the KG service returned at rank k
Candidate(id, k) == [id |-> id, kg_pos |-> k, score |-> NoScore, scorePrime |-> NoScore]

\* order of two ids as strings: the first character that differs decides, and
\* a proper prefix is the smaller
RECURSIVE lex_less(_, _)
lex_less(a, b) ==
    IF b = <<>> THEN FALSE
    ELSE IF a = <<>> THEN TRUE
    ELSE IF Head(a) # Head(b) THEN Head(a) < Head(b)
    ELSE lex_less(Tail(a), Tail(b))

\* ranking by the score alone
ranks_before_ScoreOnly(a, b, field) == a[field] > b[field]

\* the sort key of Prediction: score descending, then id ascending
ranks_before(a, b, field) ==
    \/ a[field] > b[field]
    \/ a[field] = b[field] /\ lex_less(a.id, b.id)

\* inserts candidate c behind the last candidate of the sorted list that it
\* does not rank before (a stable insertion)
RECURSIVE insert_sorted(_, _, _)
insert_sorted(c, sorted, field) ==
    IF sorted = <<>> THEN <<c>>
    ELSE IF ranks_before(c, Head(sorted), field) THEN <<c>> \o sorted
    ELSE <<Head(sorted)>> \o insert_sorted(c, Tail(sorted), field)

\* the candidate list re-sorted on a score field (a stable sort)
RECURSIVE sort_candidates(_, _)
sort_candidates(candidates, field) ==
    IF candidates = <<>> THEN <<>>
    ELSE insert_sorted(candidates[Len(candidates)],
                       sort_candidates(SubSeq(candidates, 1, Len(candidates) - 1), field),
                       field)

\* Prediction.compute_prediction: the model's scalars are written into the
\* named field of each candidate, then the list is re-sorted on that field
compute_prediction(candidates, scalars, field) ==
    sort_candidates([k \in DOMAIN candidates |->
                        [candidates[k] EXCEPT ![field] = scalars[k]]], field)

RankFrame == UNCHANGED <<storeVars, workerVars, stageVars, http_response>>

\* line 110: the features of each candidate; no score is written
compute_feautures ==
    /\ cell_candidates.pos = "lookup"
    /\ cell_candidates' = [cell_candidates EXCEPT !.pos = "features"]
    /\ RankFrame

\* line 111: Prediction(rows, features, pn_model).compute_prediction("rho")
compute_prediction_rho(scalars) ==
    /\ cell_candidates.pos = "features"
    /\ cell_candidates' =
          [pos |-> "rho",
           candidates |-> compute_prediction(cell_candidates.candidates, scalars, "score")]
    /\ RankFrame

\* lines 112-114: the pre-linking data and the features of the revision are
\* read off the ranked lists; no score is written
revision_compute_features ==
    /\ cell_candidates.pos = "rho"
    /\ cell_candidates' = [cell_candidates EXCEPT !.pos = "revision"]
    /\ RankFrame

\* line 115: Prediction(rows, features, rn_model).compute_prediction("rho'")
compute_prediction_rho_prime(scalars) ==
    /\ cell_candidates.pos = "revision"
    /\ cell_candidates' =
          [pos |-> "rho'",
           candidates |-> compute_prediction(cell_candidates.candidates, scalars,
                                             "scorePrime")]
    /\ RankFrame

\* the cell as Lookup leaves it: the candidates in the order of the KG service
InitRank ==
    /\ StoreInit /\ WorkerInit /\ KGIdle /\ LookupIdle /\ PageIdle
    /\ FacadeIdle
    /\ \E n \in 0..Cardinality(CandidateIds) : \E l \in KGLists(n) :
          cell_candidates = [pos |-> "lookup",
                             candidates |-> [k \in 1..n |-> Candidate(l[k], k)]]

NextRank ==
    \/ compute_feautures
    \/ \E scalars \in [DOMAIN cell_candidates.candidates -> Scores] :
          compute_prediction_rho(scalars)
    \/ revision_compute_features
    \/ \E scalars \in [DOMAIN cell_candidates.candidates -> Scores] :
          compute_prediction_rho_prime(scalars)

SpecRank == InitRank /\ [][NextRank]_vars

\* the score field that the last scoring stage has written
LastScored ==
    IF cell_candidates.pos \in {"rho", "revision"} THEN "score" ELSE "scorePrime"

====
